---- MODULE Spec2Model ----
(***************************************************************************)
(* Model of the ChapterBridge embed/match worker: the segment_mappings     *)
(* table, the upserts of every matcher, and the matcher runs.              *)
(*                                                                         *)
(* Numbers.  Confidences and similarities are fixed-point integers in      *)
(* units of 1/10000 (10000 is 1.0), so that the weights of score.ts        *)
(* (0.48, 0.32, 0.2), the time-context steps (0.02, 0.03) and the jump     *)
(* penalty (0.01 per unit) are exact.  Quotients (an average, an overlap   *)
(* ratio) are rounded down to that unit.  Ordinals are integers.           *)
(***************************************************************************)
EXTENDS Integers, Sequences, FiniteSets, TLC

VARIABLES
  segment_mappings,  \* the rows of table segment_mappings (a set of records)
  run,               \* the local variables of the run in progress
  last               \* history: what the last completed step did

vars == <<segment_mappings, run, last>>

(***************************************************************************)
(* The table.                                                              *)
(***************************************************************************)
NULL == "NULL"
\* NULL of an integer column
NULLNUM == 0 - 1
\* 1.0 in confidence units
ONE == 100 * 100

\* The value a column takes when an INSERT does not list it.  The table is taken
\* as the upserts of the matchers were written for it: status defaults to
\* 'proposed', and segment_number and from_edition_id accept NULL (the migrations
\* that make them NOT NULL are not applied; once they are, an INSERT that omits
\* the column is rejected).
ColumnDefault(col) ==
  CASE col = "status" -> "proposed"
    [] col = "segment_number" -> NULLNUM
    [] OTHER -> NULL

AllColumns ==
  {"from_segment_id", "to_edition_id", "from_edition_id", "segment_number",
   "to_segment_start", "to_segment_end", "confidence", "evidence", "status",
   "algorithm_version"}

\* SELECT ... WHERE from_segment_id = $1 AND to_edition_id = $2
existingCheck(tbl, fromSegmentId, toEditionId) ==
  {r \in tbl : r.from_segment_id = fromSegmentId /\ r.to_edition_id = toEditionId}

\* The row an INSERT of the listed columns builds: the others take their default.
InsertedRow(vals, cols) ==
  [c \in AllColumns |-> IF c \in cols THEN vals[c] ELSE ColumnDefault(c)]

\* UPDATE ... SET <cols> WHERE from_segment_id = .. AND to_edition_id = ..
UpdateRows(tbl, vals, cols) ==
  {IF r.from_segment_id = vals.from_segment_id /\ r.to_edition_id = vals.to_edition_id
     THEN [c \in AllColumns |-> IF c \in cols THEN vals[c] ELSE r[c]]
     ELSE r : r \in tbl}

\* INSERT: the unique key (from_segment_id, to_edition_id) rejects a second row.
InsertRow(tbl, vals, cols) ==
  IF existingCheck(tbl, vals.from_segment_id, vals.to_edition_id) # {}
    THEN [ok |-> FALSE, tbl |-> tbl]
    ELSE [ok |-> TRUE, tbl |-> tbl \cup {InsertedRow(vals, cols)}]

\* INSERT ... ON CONFLICT (from_segment_id, to_edition_id) DO UPDATE SET <setCols>
InsertOnConflictUpdate(tbl, vals, cols, setCols) ==
  IF existingCheck(tbl, vals.from_segment_id, vals.to_edition_id) # {}
    THEN [ok |-> TRUE, tbl |-> UpdateRows(tbl, vals, setCols)]
    ELSE InsertRow(tbl, vals, cols)

(***************************************************************************)
(* The upsert of each matcher.  Each returns [ok, tbl]: ok = FALSE is the  *)
(* statement raising an error, which leaves the table as it was.           *)
(***************************************************************************)
Vals(fromSegmentId, fromEditionId, segmentNumber, toEditionId, toSegmentStart, toSegmentEnd, confidence, evidence, status, algorithmVersion) ==
  [from_segment_id |-> fromSegmentId, from_edition_id |-> fromEditionId,
   segment_number |-> segmentNumber, to_edition_id |-> toEditionId,
   to_segment_start |-> toSegmentStart, to_segment_end |-> toSegmentEnd,
   confidence |-> confidence, evidence |-> evidence, status |-> status,
   algorithm_version |-> algorithmVersion]

\* eventMatch.ts, with ON CONFLICT DO NOTHING in place of DO UPDATE
upsertMapping_eventMatch_DoNothing(tbl, fromSegmentId, segmentNumber, toEditionId, toSegmentStart, toSegmentEnd, confidence, evidence, algoVersion) ==
  InsertOnConflictUpdate(tbl,
    Vals(fromSegmentId, NULL, segmentNumber, toEditionId, toSegmentStart, toSegmentEnd,
         confidence, evidence, "proposed", algoVersion),
    AllColumns \ {"from_edition_id"},
    {})

\* eventMatch.ts upsertMapping
upsertMapping_eventMatch(tbl, fromSegmentId, segmentNumber, toEditionId, toSegmentStart, toSegmentEnd, confidence, evidence, algoVersion) ==
  InsertOnConflictUpdate(tbl,
    Vals(fromSegmentId, NULL, segmentNumber, toEditionId, toSegmentStart, toSegmentEnd,
         confidence, evidence, "proposed", algoVersion),
    AllColumns \ {"from_edition_id"},
    {"segment_number", "to_segment_start", "to_segment_end", "confidence", "evidence",
     "status", "algorithm_version"})

\* align.ts upsertMapping
upsertMapping_align(tbl, fromSegmentId, toEditionId, toSegmentStart, toSegmentEnd, confidence, evidence, algoVersion) ==
  InsertOnConflictUpdate(tbl,
    Vals(fromSegmentId, NULL, NULLNUM, toEditionId, toSegmentStart, toSegmentEnd,
         confidence, evidence, "proposed", algoVersion),
    AllColumns \ {"from_edition_id", "segment_number"},
    {"to_segment_start", "to_segment_end", "confidence", "evidence", "status",
     "algorithm_version"})

\* derive.ts (legacy) upsertDerivedMapping
upsertDerivedMapping_legacy(tbl, fromSegmentId, toEditionId, toSegmentStart, toSegmentEnd, confidence, evidence) ==
  InsertOnConflictUpdate(tbl,
    Vals(fromSegmentId, NULL, NULLNUM, toEditionId, toSegmentStart, toSegmentEnd,
         confidence, evidence, "proposed", "derived-v1"),
    AllColumns \ {"from_edition_id", "segment_number"},
    {"to_segment_start", "to_segment_end", "confidence", "evidence", "status",
     "algorithm_version"})

\* matchingAll.ts upsertMapping: SELECT, then UPDATE or INSERT
upsertMapping_matchingAll(tbl, fromSegmentId, fromEditionId, segmentNumber, toEditionId, toSegmentStart, toSegmentEnd, confidence, evidence, status, algorithmVersion) ==
  LET vals == Vals(fromSegmentId, fromEditionId, segmentNumber, toEditionId, toSegmentStart,
                   toSegmentEnd, confidence, evidence, status, algorithmVersion)
  IN IF Cardinality(existingCheck(tbl, fromSegmentId, toEditionId)) > 0
       THEN [ok |-> TRUE,
             tbl |-> UpdateRows(tbl, vals,
                       AllColumns \ {"from_segment_id", "to_edition_id"})]
       ELSE InsertRow(tbl, vals, AllColumns)

\* matchingIncremental.ts upsertMapping: the same statements
upsertMapping_incremental(tbl, fromSegmentId, fromEditionId, segmentNumber, toEditionId, toSegmentStart, toSegmentEnd, confidence, evidence, status, algorithmVersion) ==
  LET vals == Vals(fromSegmentId, fromEditionId, segmentNumber, toEditionId, toSegmentStart,
                   toSegmentEnd, confidence, evidence, status, algorithmVersion)
  IN IF Cardinality(existingCheck(tbl, fromSegmentId, toEditionId)) > 0
       THEN [ok |-> TRUE,
             tbl |-> UpdateRows(tbl, vals,
                       AllColumns \ {"from_segment_id", "to_edition_id"})]
       ELSE InsertRow(tbl, vals, AllColumns)

\* deriveAnimeManhwa.ts upsertDerivedMapping.  Its INSERT names ten columns and
\* gives nine values ($1..$8 and 'derived-v1') with nine parameters bound: the
\* statement is rejected, so the insert path raises.
upsertDerivedMapping(tbl, fromSegmentId, fromEditionId, segmentNumber, toEditionId, toSegmentStart, toSegmentEnd, confidence, evidence, status) ==
  LET vals == Vals(fromSegmentId, fromEditionId, segmentNumber, toEditionId, toSegmentStart,
                   toSegmentEnd, confidence, evidence, status, "derived-v1")
  IN IF Cardinality(existingCheck(tbl, fromSegmentId, toEditionId)) > 0
       THEN [ok |-> TRUE,
             tbl |-> UpdateRows(tbl, vals,
                       AllColumns \ {"from_segment_id", "to_edition_id"})]
       ELSE [ok |-> FALSE, tbl |-> tbl]

(***************************************************************************)
(* Segments (read-only here).                                              *)
(***************************************************************************)
segments ==
  {[id |-> "a1", edition_id |-> "anime", number |-> 1],
   [id |-> "a2", edition_id |-> "anime", number |-> 2],
   [id |-> "a3", edition_id |-> "anime", number |-> 3],
   [id |-> "m1", edition_id |-> "manhwa", number |-> 1],
   [id |-> "m2", edition_id |-> "manhwa", number |-> 2],
   [id |-> "m4", edition_id |-> "manhwa", number |-> 4]}

SegmentsOf(editionId) == {s \in segments : s.edition_id = editionId}

\* eventMatchGreedy.ts saveEpisodeMapping: looks the segment up by its number,
\* and writes neither status nor algorithm_version.
saveEpisodeMapping(tbl, fromEditionId, toEditionId, result) ==
  LET found == {s \in SegmentsOf(fromEditionId) : s.number = result.episode}
  IN IF found = {}
       THEN [ok |-> TRUE, tbl |-> tbl]
       ELSE LET segmentId == (CHOOSE s \in found : TRUE).id
            IN InsertOnConflictUpdate(tbl,
                 Vals(segmentId, NULL, NULLNUM, toEditionId, result.chapter_start,
                      result.chapter_end, result.confidence, result.evidence, NULL, NULL),
                 {"from_segment_id", "to_edition_id", "to_segment_start", "to_segment_end",
                  "confidence", "evidence"},
                 {"to_segment_start", "to_segment_end", "confidence", "evidence"})

(***************************************************************************)
(* utils.ts and config.ts                                                  *)
(***************************************************************************)
Min2(a, b) == IF a < b THEN a ELSE b
Max2(a, b) == IF a > b THEN a ELSE b
SetMin(S) == CHOOSE x \in S : \A y \in S : x <= y
SetMax(S) == CHOOSE x \in S : \A y \in S : x >= y

clamp(value, min, max) == Max2(min, Min2(max, value))
rangeWidth(start, end) == end - start + 1

\* config.minConfidence, 0.55
minConfidence == 5500
\* config.fallbackConfidencePenalty, 0.6, in hundredths
fallbackConfidencePenalty == 60

\* Always 'proposed': approval is left to human review.
determineStatus(confidence, width, minConf) == "proposed"

\* deriveAnimeManhwa.ts: the status runDeriveAnimeManhwa gives a derived mapping
DeriveStatus(derived_confidence) ==
  IF derived_confidence < minConfidence THEN "proposed" ELSE "approved"

\* adjustConfidenceForRange with its defaults: threshold 20, penalty 0.7
adjustConfidenceForRange(confidence, width) ==
  IF width > 20 THEN clamp((confidence * 7) \div 10, 0, ONE) ELSE confidence

(***************************************************************************)
(* The persist step of each matcher: the call of its upsert as the matcher *)
(* makes it, for a computed range [lo, hi] and confidence conf.            *)
(***************************************************************************)
Matchers ==
  {"events", "align", "greedy", "all", "all-fallback", "inc", "derive", "derive-legacy"}

\* The algorithm version each matcher passes to its upsert (greedy passes none).
AlgoVersion(m) ==
  CASE m = "events" -> "event-v2"
    [] m = "align" -> "algo-align"
    [] m = "all" -> "algo-all"
    [] m = "all-fallback" -> "algo-all-fallback"
    [] m = "inc" -> "algo-inc"
    [] m \in {"derive", "derive-legacy"} -> "derived-v1"
    [] OTHER -> NULL

\* The status each matcher's computation yields (greedy passes none).
StatusOf(m, lo, hi, conf) ==
  CASE m \in {"all", "all-fallback", "inc"} ->
         determineStatus(conf, rangeWidth(lo, hi), minConfidence)
    [] m = "derive" -> DeriveStatus(conf)
    [] m = "greedy" -> NULL
    [] OTHER -> "proposed"

Persist(m, tbl, seg, toEditionId, lo, hi, conf) ==
  CASE m = "events" ->
         upsertMapping_eventMatch(tbl, seg.id, seg.number, toEditionId, lo, hi, conf, m,
                                  AlgoVersion(m))
    [] m = "align" ->
         upsertMapping_align(tbl, seg.id, toEditionId, lo, hi, conf, m, AlgoVersion(m))
    [] m = "greedy" ->
         saveEpisodeMapping(tbl, seg.edition_id, toEditionId,
           [episode |-> seg.number, chapter_start |-> lo, chapter_end |-> hi,
            confidence |-> conf, evidence |-> m])
    [] m \in {"all", "all-fallback"} ->
         upsertMapping_matchingAll(tbl, seg.id, seg.edition_id, seg.number, toEditionId,
                                   lo, hi, conf, m, StatusOf(m, lo, hi, conf), AlgoVersion(m))
    [] m = "inc" ->
         upsertMapping_incremental(tbl, seg.id, seg.edition_id, seg.number, toEditionId,
                                   lo, hi, conf, m, StatusOf(m, lo, hi, conf), AlgoVersion(m))
    [] m = "derive" ->
         upsertDerivedMapping(tbl, seg.id, seg.edition_id, seg.number, toEditionId,
                              lo, hi, conf, m, StatusOf(m, lo, hi, conf))
    [] m = "derive-legacy" ->
         upsertDerivedMapping_legacy(tbl, seg.id, toEditionId, lo, hi, conf, m)

(***************************************************************************)
(* SpecUpsert: any sequence of persist steps, by any matchers, on the      *)
(* pairs (anime segment, target edition).                                  *)
(***************************************************************************)
MaxCalls == 3
UpsertSegs == {s \in segments : s.id = "a1"}
UpsertTargets == {"novel", "manhwa"}
UpsertRanges == {<<1, 2>>, <<2, 4>>}
UpsertConfs == {3000, 9000}

NoRow == [from_segment_id |-> NULL]

TheRow(tbl, fromSegmentId, toEditionId) ==
  LET rows == existingCheck(tbl, fromSegmentId, toEditionId)
  IN IF rows = {} THEN NoRow ELSE CHOOSE r \in rows : TRUE

NoCall == [matcher |-> "none"]

InitUpsert ==
  /\ segment_mappings = {}
  /\ run = [calls |-> 0]
  /\ last = NoCall

CallUpsert(m, seg, toEditionId, lo, hi, conf) ==
  LET res == Persist(m, segment_mappings, seg, toEditionId, lo, hi, conf)
  IN /\ run.calls < MaxCalls
     /\ segment_mappings' = res.tbl
     /\ run' = [calls |-> run.calls + 1]
     /\ last' = [matcher |-> m, seg |-> seg.id, toEd |-> toEditionId, lo |-> lo, hi |-> hi,
                 conf |-> conf, ok |-> res.ok,
                 prev |-> TheRow(segment_mappings, seg.id, toEditionId)]

\* Derivation writes anime -> manhwa rows; the matchers take any target edition.
NextUpsert ==
  \E m \in Matchers, seg \in UpsertSegs, toEditionId \in UpsertTargets,
     rg \in UpsertRanges, conf \in UpsertConfs :
    /\ m \in {"derive", "derive-legacy"} => toEditionId = "manhwa"
    /\ CallUpsert(m, seg, toEditionId, rg[1], rg[2], conf)

SpecUpsert == InitUpsert /\ [][NextUpsert]_vars

C4_OverwriteReplacesEveryField ==
  (last.matcher # "none" /\ last.ok /\ last.prev # NoRow) =>
    LET r == TheRow(segment_mappings, last.seg, last.toEd)
        st == StatusOf(last.matcher, last.lo, last.hi, last.conf)
    IN /\ r.to_segment_start = last.lo
       /\ r.to_segment_end = last.hi
       /\ r.confidence = last.conf
       /\ r.evidence = last.matcher
       /\ r.status = (IF st = NULL THEN ColumnDefault("status") ELSE st)
       /\ r.algorithm_version = AlgoVersion(last.matcher)

\* C5: every row of segment_mappings has status 'proposed', whichever matcher or
\* derivation wrote it and whatever its confidence.
C5_OnlyProposedWritten ==
  \A r \in segment_mappings : r.status = "proposed"

(***************************************************************************)
(* SpecAll: one run of runMatchAll (matchingAll.ts), anime -> novel.       *)
(*                                                                         *)
(* A mapping item of the LLM response is [from_number2, to_start, to_end,  *)
(* confidence]: MappingItemSchema only asks for numbers, and a confidence  *)
(* in [0,1].  from_number2 is twice the from_number, so that the response  *)
(* can name a fractional number (5 is 2.5) and Math.floor does something.  *)
(* The response is read one item at a time: its length is fixed when the   *)
(* LLM answers, and each item is drawn when the loop reaches it.           *)
(***************************************************************************)
MaxMappings == 2
Floor2(n2) == n2 \div 2

\* The items a response may hold: episode 1 with a narrow range and with a range
\* whose start is past its end, episode 2, episode 2.5 with a range wider than
\* 20, and episode 3, which is outside the source range 1..2.
LLMItems ==
  {[from_number2 |-> x[1], to_start |-> x[2], to_end |-> x[3], confidence |-> 8000] :
     x \in {<<2, 1, 3>>, <<2, 3, 1>>, <<4, 5, 6>>, <<5, 1, 25>>, <<6, 1, 3>>}}
\* What the fallback's LLM call may answer (FallbackResponseSchema); its
\* from_number is not read.
FallbackItems ==
  {[from_number2 |-> 2, to_start |-> x[1], to_end |-> x[2], confidence |-> x[3]] :
     x \in {<<2, 4, 10000>>, <<4, 2, 5000>>}}

\* The source segments as fetchSegmentsWithEvents reads them: segments.number is
\* a numeric column read with parseFloat, held here as number2, twice the
\* number.  Beside episodes 1, 2 and 3 the anime has an episode 2.5.
AllSegments ==
  {[id |-> s.id, edition_id |-> s.edition_id, number2 |-> 2 * s.number] :
     s \in SegmentsOf("anime")}
    \cup {[id |-> "a2h", edition_id |-> "anime", number2 |-> 5]}

\* fetchSegmentsWithEvents(fromEditionId, fromStart, fromEnd)
fetchSegmentsWithEvents(editionId, startNum, endNum) ==
  {s \in AllSegments : /\ s.edition_id = editionId
                       /\ s.number2 >= 2 * startNum /\ s.number2 <= 2 * endNum}

\* fromSegmentById.get(fromNum): the map is keyed by Math.floor(seg.number) and
\* filled in the order of the fetch (ORDER BY s.number ASC), so that of the
\* segments of one key the last one set, the highest number, is the one kept
fromSegmentById(fromSegments, fromNum) ==
  LET keyed == {s \in fromSegments : Floor2(s.number2) = fromNum}
  IN {s \in keyed : \A t \in keyed : t.number2 <= s.number2}

AnimeIds == {s.id : s \in AllSegments}

\* History of a runMatchAll run: the last step (with the run and the table as they
\* were before it), the segments this run has persisted a mapping for, and how
\* many of the errors counted stand against each segment.
Hist(kind, seg, mapping, persisted, errored) ==
  [kind |-> kind, seg |-> seg, mapping |-> mapping, i |-> run.i, successCount |-> run.successCount,
   errorCount |-> run.errorCount, tbl |-> segment_mappings,
   persisted |-> persisted, errored |-> errored]

InitAll ==
  /\ segment_mappings \in
       {{}, Persist("events", {}, CHOOSE s \in segments : s.id = "a1", "novel", 2, 4, 7000).tbl}
  /\ \E novel \in {1..30, {30}, {}}, fb \in BOOLEAN, fromEnd \in {2, 3} :
       run = [pc |-> "start", fromStart |-> 1, fromEnd |-> fromEnd,
              novelStart |-> 1, novelEnd |-> 30,
              novelNumbers |-> novel, enableFallback |-> fb,
              fromSegments |-> {}, mappingsLength |-> 0, i |-> 0,
              successCount |-> 0, errorCount |-> 0, failedMappings |-> <<>>, j |-> 0]
  /\ last = [kind |-> "none", seg |-> NULL, mapping |-> NULL, i |-> 0, successCount |-> 0, errorCount |-> 0,
             tbl |-> {}, persisted |-> {}, errored |-> [id \in AnimeIds |-> 0]]

\* Steps 1-4: fetch both ranges, return when either is empty, call the LLM.
AllFetchEmpty ==
  /\ run.pc = "start"
  /\ \/ fetchSegmentsWithEvents("anime", run.fromStart, run.fromEnd) = {}
     \/ run.novelNumbers = {}
  /\ run' = [run EXCEPT !.pc = "returned"]
  /\ last' = Hist("fetch-empty", NULL, NULL, last.persisted, last.errored)
  /\ UNCHANGED segment_mappings

AllLLMFails ==
  /\ run.pc = "start"
  /\ fetchSegmentsWithEvents("anime", run.fromStart, run.fromEnd) # {}
  /\ run.novelNumbers # {}
  /\ run' = [run EXCEPT !.pc = "thrown"]
  /\ last' = Hist("llm-failed", NULL, NULL, last.persisted, last.errored)
  /\ UNCHANGED segment_mappings

AllLLMResponds(mappingsLength) ==
  /\ run.pc = "start"
  /\ fetchSegmentsWithEvents("anime", run.fromStart, run.fromEnd) # {}
  /\ run.novelNumbers # {}
  /\ run' = [run EXCEPT !.pc = "loop", !.mappingsLength = mappingsLength, !.i = 1,
               !.fromSegments = fetchSegmentsWithEvents("anime", run.fromStart, run.fromEnd)]
  /\ last' = Hist("llm-response", NULL, NULL, last.persisted, last.errored)
  /\ UNCHANGED segment_mappings

\* Lines 463-467: no segment for from_number: warn, errorCount++, continue.
SkipMapping_NoCount(r) == [r EXCEPT !.i = @ + 1]
SkipMapping(r) == [r EXCEPT !.errorCount = @ + 1, !.i = @ + 1]

AllSkipUnknown(mapping) ==
  /\ run.pc = "loop" /\ run.i <= run.mappingsLength
  /\ fromSegmentById(run.fromSegments, Floor2(mapping.from_number2)) = {}
  /\ run' = SkipMapping(run)
  /\ last' = Hist("skip-unknown", NULL, mapping, last.persisted, last.errored)
  /\ UNCHANGED segment_mappings

\* Lines 469-509: adjust the confidence, derive the status, upsert; the upsert
\* may raise (the query failing), which is caught and recorded for the fallback.
AllUpsert(mapping, ioFails) ==
  /\ run.pc = "loop" /\ run.i <= run.mappingsLength
  /\ LET fromNum == Floor2(mapping.from_number2)
         found == fromSegmentById(run.fromSegments, fromNum)
     IN /\ found # {}
        /\ LET segment == CHOOSE s \in found : TRUE
               width == rangeWidth(mapping.to_start, mapping.to_end)
               adjustedConfidence ==
                 clamp(adjustConfidenceForRange(mapping.confidence, width), 0, ONE)
               status == determineStatus(adjustedConfidence, width, minConfidence)
               res == IF ioFails THEN [ok |-> FALSE, tbl |-> segment_mappings]
                      ELSE upsertMapping_matchingAll(segment_mappings, segment.id, "anime",
                             fromNum, "novel", mapping.to_start, mapping.to_end,
                             adjustedConfidence, "all", status, AlgoVersion("all"))
           IN /\ segment_mappings' = res.tbl
              /\ IF res.ok
                   THEN /\ run' = [run EXCEPT !.successCount = @ + 1, !.i = @ + 1]
                        /\ last' = Hist("upsert-ok", segment.id, mapping,
                                      last.persisted \cup {segment.id}, last.errored)
                   ELSE /\ run' = [run EXCEPT !.errorCount = @ + 1, !.i = @ + 1,
                                     !.failedMappings =
                                        Append(@, [mapping |-> mapping, segment |-> segment])]
                        /\ last' = Hist("upsert-failed", segment.id, mapping, last.persisted,
                                      [last.errored EXCEPT ![segment.id] = @ + 1])

\* Line 512: after the loop, the fallback pass when enabled and needed.
AllLoopEnd ==
  /\ run.pc = "loop" /\ run.i > run.mappingsLength
  /\ run' = [run EXCEPT
               !.pc = IF run.enableFallback /\ Len(run.failedMappings) > 0
                        THEN "fallback" ELSE "done",
               !.j = 1]
  /\ last' = Hist("loop-end", NULL, NULL, last.persisted, last.errored)
  /\ UNCHANGED segment_mappings

\* config.fallbackWindowSize
fallbackWindowSize == 40

\* fallbackSingleSegment, lines 252-267: the window, centred on fromNum * 4
FallbackWindow(fromNum, novelStart, novelEnd) ==
  LET windowCenter == Max2(novelStart, Min2(novelEnd, fromNum * 4))
  IN [start |-> Max2(novelStart, windowCenter - fallbackWindowSize \div 2),
      end |-> Min2(novelEnd, windowCenter + fallbackWindowSize \div 2)]

\* Line 291: the retries fallbackSingleSegment allows its LLM call
fallbackRetries == 0

\* What the completion requests of one LLM call may come to, in order
FallbackOutcomes == {<<a, b>> : a \in {"valid", "invalid"}, b \in {"valid", "invalid"}}

RECURSIVE callLLMWithJsonValidation(_, _, _, _)
\* callLLMWithJsonValidation from attempt `attempt` on, the k-th request coming to
\* outcomes[k]: whether it returns a validated response, and the requests sent
callLLMWithJsonValidation(attempt, retries, outcomes, requests) ==
  IF ~(attempt <= retries)
    THEN [ok |-> FALSE, requests |-> requests]
    ELSE IF outcomes[attempt + 1] = "valid"
      THEN [ok |-> TRUE, requests |-> requests + 1]
      ELSE callLLMWithJsonValidation(attempt + 1, retries, outcomes, requests + 1)

\* Lines 298-303: the fallback confidence, without the penalty
penalizedConfidence_NoPenalty(confidence) ==
  clamp(confidence, 0, ONE)
\* Lines 298-303: the fallback confidence penalty
penalizedConfidence(confidence) ==
  clamp((confidence * fallbackConfidencePenalty) \div 100, 0, ONE)

\* History of a fallback step: as Hist, with the requests its LLM call sent
FallbackHist(kind, seg, mapping, persisted, errored, requests) ==
  [kind |-> kind, seg |-> seg, mapping |-> mapping, i |-> run.i, successCount |-> run.successCount,
   errorCount |-> run.errorCount, tbl |-> segment_mappings,
   persisted |-> persisted, errored |-> errored, requests |-> requests]

\* Lines 533-534 without the errorCount--
fallbackRecovered_KeepError(r) ==
  [r EXCEPT !.j = @ + 1, !.successCount = @ + 1]
\* Lines 533-534: a fallback that returned a result: successCount++, errorCount--
fallbackRecovered(r) ==
  [r EXCEPT !.j = @ + 1, !.successCount = @ + 1, !.errorCount = @ - 1]

\* Lines 517-540: one failed mapping through fallbackSingleSegment.  It returns
\* null when its window holds no novel segment (before any request) or its LLM
\* call fails; its upsert may raise, which runMatchAll catches and only logs.
AllFallback(outcomes, item, ioFails) ==
  /\ run.pc = "fallback" /\ run.j <= Len(run.failedMappings)
  /\ LET segment == run.failedMappings[run.j].segment
         fromNum == Floor2(segment.number2)
         w == FallbackWindow(fromNum, run.novelStart, run.novelEnd)
         windowSegments == {n \in run.novelNumbers : n >= w.start /\ n <= w.end}
         llm == callLLMWithJsonValidation(0, fallbackRetries, outcomes, 0)
         conf == penalizedConfidence(item.confidence)
         status == determineStatus(conf, rangeWidth(item.to_start, item.to_end),
                                   minConfidence)
         res == IF ioFails THEN [ok |-> FALSE, tbl |-> segment_mappings]
                ELSE upsertMapping_matchingAll(segment_mappings, segment.id, "anime",
                       fromNum, "novel", item.to_start, item.to_end, conf,
                       "all-fallback", status, AlgoVersion("all-fallback"))
     IN \/ /\ windowSegments = {}
           /\ run' = [run EXCEPT !.j = @ + 1]
           /\ last' = FallbackHist("fallback-null", segment.id, item, last.persisted,
                                   last.errored, 0)
           /\ UNCHANGED segment_mappings
        \/ /\ windowSegments # {} /\ ~llm.ok
           /\ run' = [run EXCEPT !.j = @ + 1]
           /\ last' = FallbackHist("fallback-null", segment.id, item, last.persisted,
                                   last.errored, llm.requests)
           /\ UNCHANGED segment_mappings
        \/ /\ windowSegments # {} /\ llm.ok /\ ~res.ok
           /\ run' = [run EXCEPT !.j = @ + 1]
           /\ last' = FallbackHist("fallback-raised", segment.id, item, last.persisted,
                                   last.errored, llm.requests)
           /\ UNCHANGED segment_mappings
        \/ /\ windowSegments # {} /\ llm.ok /\ res.ok
           /\ segment_mappings' = res.tbl
           /\ run' = fallbackRecovered(run)
           /\ last' = FallbackHist("fallback-ok", segment.id, item,
                                   last.persisted \cup {segment.id},
                                   [last.errored EXCEPT ![segment.id] = @ - 1],
                                   llm.requests)

AllFallbackEnd ==
  /\ run.pc = "fallback" /\ run.j > Len(run.failedMappings)
  /\ run' = [run EXCEPT !.pc = "done"]
  /\ last' = Hist("fallback-end", NULL, NULL, last.persisted, last.errored)
  /\ UNCHANGED segment_mappings

NextAll ==
  \/ AllFetchEmpty
  \/ AllLLMFails
  \/ /\ run.pc = "start"
     /\ \E mappingsLength \in 0..MaxMappings : AllLLMResponds(mappingsLength)
  \/ /\ run.pc = "loop"
     /\ \E mapping \in LLMItems : AllSkipUnknown(mapping)
  \/ /\ run.pc = "loop"
     /\ \E mapping \in LLMItems, ioFails \in BOOLEAN : AllUpsert(mapping, ioFails)
  \/ AllLoopEnd
  \/ /\ run.pc = "fallback"
     /\ \E outcomes \in FallbackOutcomes, item \in FallbackItems, ioFails \in BOOLEAN :
          AllFallback(outcomes, item, ioFails)
  \/ AllFallbackEnd

SpecAll == InitAll /\ [][NextAll]_vars

\* C1: every row of segment_mappings has to_segment_start <= to_segment_end.
C1_StartLeEnd ==
  \A r \in segment_mappings : r.to_segment_start <= r.to_segment_end

\* C9: when runMatchAll has finished, every source segment it fetched is in
\* exactly one outcome: this run persisted a mapping for it, or an error counted
\* by the run stands against it.
C9_EveryFetchedSegmentHasOneOutcome ==
  run.pc = "done" =>
    \A s \in run.fromSegments : (s.id \in last.persisted) # (last.errored[s.id] > 0)

C37_StoredAgainstSegmentOfFromNumber ==
  /\ last.kind = "upsert-ok" =>
       \E s \in run.fromSegments : /\ s.id = last.seg
                                    /\ s.number2 = last.mapping.from_number2
  /\ \A s, t \in run.fromSegments : Floor2(s.number2) = Floor2(t.number2) => s = t

\* C39: at the end of runMatchAll successCount + errorCount is the number of
\* mappings of the LLM response, and errorCount is never negative, whatever the
\* unknown from_numbers, the upserts that raise and the outcomes of the fallback.
C39_CountersAddUpToMappings ==
  /\ run.errorCount >= 0
  /\ run.pc = "done" => run.successCount + run.errorCount = run.mappingsLength

\* C39 witness: a finished run of two mappings, one skipped for its unknown
\* from_number and one whose upsert raised and whose fallback persisted it.
C39_Witness ==
  /\ run.pc = "done"
  /\ run.mappingsLength = 2
  /\ Len(run.failedMappings) = 1
  /\ run.successCount = 1 /\ run.errorCount = 1
  /\ \A id \in AnimeIds : last.errored[id] = 0

computeFinalScore(simSummary, simEvents, simEntities) ==
  LET simSummaryCombo == 60 * simSummary + 40 * simEvents
  IN (80 * simSummaryCombo) \div 100 + 20 * simEntities

\* The time contexts the stored entities may carry, as written
TimeContexts == {"present", "Flashback", " future ", "dream", NULL}

\* lower-case and trim; anything but the three known contexts is 'unknown'
normalizeTimeContext(ctx) ==
  CASE ctx = NULL -> "unknown"
    [] ctx = "present" -> "present"
    [] ctx = "Flashback" -> "flashback"
    [] ctx = " future " -> "future"
    [] OTHER -> "unknown"

mismatchPairs ==
  {<<"present", "flashback">>, <<"present", "future">>, <<"flashback", "future">>}

applyTimeContextAdjustment(score, fromTimeContext, toTimeContext) ==
  LET fromNorm == normalizeTimeContext(fromTimeContext)
      toNorm == normalizeTimeContext(toTimeContext)
  IN IF fromNorm = toNorm /\ fromNorm # "unknown"
       THEN score + 200
       ELSE IF \E p \in mismatchPairs :
                 \/ fromNorm = p[1] /\ toNorm = p[2]
                 \/ fromNorm = p[2] /\ toNorm = p[1]
              THEN score - 300
              ELSE score

(***************************************************************************)
(* SpecAlign: one run of runMatchAlign (align.ts), anime -> novel.         *)
(*                                                                         *)
(* fetchCandidates is the retrieval: any set of candidate rows, at most    *)
(* one per target segment, whose numbers lie in the window when there is   *)
(* one.  Every similarity is within [0,1].                                 *)
(***************************************************************************)
MaxLimit == 2

\* segment_entities.time_context of the source segments
FromTimeContext(segmentId) ==
  CASE segmentId = "a1" -> "present"
    [] segmentId = "a2" -> "Flashback"
    [] OTHER -> NULL

\* The candidate rows retrieval may return (sims in hundredths)
CandidatePool ==
  {[number |-> x[1], sim_summary |-> x[2], sim_events |-> x[3], sim_entities |-> x[4],
    time_context |-> x[5]] :
     x \in {<<1, 100, 100, 100, "present">>,
            <<2, 100, 100, 99, "dream">>,
            <<2, 100, 100, 100, "Flashback">>,
            <<4, 0, 0, 0, " future ">>,
            <<4, 50, 50, 50, NULL>>,
            <<90, 100, 90, 100, "present">>}}

\* The results fetchCandidates may give: one row per segment, inside the window
CandidateSets(minNumber, maxNumber) ==
  {S \in SUBSET CandidatePool :
     /\ \A a, b \in S : a.number = b.number => a = b
     /\ minNumber # NULLNUM =>
          \A c \in S : c.number >= minNumber /\ c.number <= maxNumber}

\* fetchFromSegments: the source segments in order of number, at most `limit`
fetchFromSegments(editionId, limit) ==
  {s \in SegmentsOf(editionId) :
     Cardinality({t \in SegmentsOf(editionId) : t.number < s.number}) < limit}

\* The segment a run handles at position k of its ordered list (1-based)
NthSegment(segs, k) ==
  CHOOSE s \in segs : Cardinality({t \in segs : t.number < s.number}) = k - 1

\* alignSegment, lines 247-262: the final score of a candidate
final_score(cand, fromSeg, lastBestToNumber, backtrack) ==
  LET adjusted == applyTimeContextAdjustment(
                    computeFinalScore(cand.sim_summary, cand.sim_events, cand.sim_entities),
                    FromTimeContext(fromSeg.id), cand.time_context)
  IN IF lastBestToNumber # NULLNUM /\ cand.number < lastBestToNumber - backtrack
       THEN adjusted - 100
       ELSE adjusted

\* alignSegment, lines 264-273: the range and confidence of a non-empty result
alignResult(candidates, fromSeg, lastBestToNumber, backtrack) ==
  LET score(c) == final_score(c, fromSeg, lastBestToNumber, backtrack)
      top == CHOOSE c \in candidates : \A d \in candidates : score(c) >= score(d)
      threshold == score(top) - 200
      inRange == {c \in candidates : score(c) >= threshold}
      numbers == {c.number : c \in inRange}
  IN [toSegmentStart |-> SetMin(numbers), toSegmentEnd |-> SetMax(numbers),
      confidence |-> score(top)]

\* config.window and config.backtrack, the defaults of the run's arguments
window == 80
backtrack == 3

\* History of a checkpointed run: the last step, the unit it handled, whether the
\* unit raised, the unit whose result the checkpoint now comes from, and the
\* units that raised so far.
RunHist(kind, unit, checkpointUnit, raised) ==
  [kind |-> kind, unit |-> unit, checkpointUnit |-> checkpointUnit, raised |-> raised]

InitAlign ==
  /\ segment_mappings = {}
  /\ \E limit \in 0..MaxLimit :
       run = [pc |-> "start", limit |-> limit, windowSize |-> window,
              backtrack |-> backtrack, fromSegments |-> {}, k |-> 0,
              lastBestToNumber |-> NULLNUM, processed |-> 0, errors |-> 0]
  /\ last = RunHist("none", NULL, NULL, {})

\* Lines 158-168: fetch the source segments; return when there are none.
AlignFetch ==
  /\ run.pc = "start"
  /\ LET fromSegments == fetchFromSegments("anime", run.limit)
     IN run' = [run EXCEPT !.fromSegments = fromSegments, !.k = 1,
                  !.pc = IF Cardinality(fromSegments) = 0 THEN "returned" ELSE "loop"]
  /\ last' = RunHist("fetch", NULL, NULL, {})
  /\ UNCHANGED segment_mappings

\* Lines 170-195, one iteration: alignSegment for the next source segment, inside
\* try/catch.  A retrieval query or the upsert may raise (fails); the catch counts
\* the error and the loop goes on.
AlignUnit(candidates, fails) ==
  /\ run.pc = "loop" /\ run.k <= Cardinality(run.fromSegments)
  /\ LET fromSeg == NthSegment(run.fromSegments, run.k)
         lastBest == run.lastBestToNumber
         minNumber == IF lastBest # NULLNUM THEN lastBest - run.backtrack ELSE NULLNUM
         maxNumber == IF lastBest # NULLNUM THEN lastBest + run.windowSize ELSE NULLNUM
     IN /\ candidates \in CandidateSets(minNumber, maxNumber)
        /\ IF fails = "query"
             THEN /\ run' = [run EXCEPT !.errors = @ + 1, !.k = @ + 1]
                  /\ last' = RunHist("raised", fromSeg.id, last.checkpointUnit,
                                     last.raised \cup {fromSeg.id})
                  /\ UNCHANGED segment_mappings
             ELSE IF candidates = {}
               THEN /\ run' = [run EXCEPT !.processed = @ + 1, !.k = @ + 1]
                    /\ last' = RunHist("no-result", fromSeg.id, last.checkpointUnit,
                                       last.raised)
                    /\ UNCHANGED segment_mappings
               ELSE LET result == alignResult(candidates, fromSeg, lastBest, run.backtrack)
                        res == IF fails = "upsert"
                                 THEN [ok |-> FALSE, tbl |-> segment_mappings]
                                 ELSE Persist("align", segment_mappings, fromSeg, "novel",
                                        result.toSegmentStart, result.toSegmentEnd,
                                        result.confidence)
                    IN /\ segment_mappings' = res.tbl
                       /\ IF res.ok
                            THEN /\ run' = [run EXCEPT
                                      !.lastBestToNumber =
                                         (result.toSegmentStart + result.toSegmentEnd) \div 2,
                                      !.processed = @ + 1, !.k = @ + 1]
                                 /\ last' = RunHist("aligned", fromSeg.id, fromSeg.id,
                                                    last.raised)
                            ELSE /\ run' = [run EXCEPT !.errors = @ + 1, !.k = @ + 1]
                                 /\ last' = RunHist("raised", fromSeg.id, last.checkpointUnit,
                                                    last.raised \cup {fromSeg.id})

AlignEnd ==
  /\ run.pc = "loop" /\ run.k > Cardinality(run.fromSegments)
  /\ run' = [run EXCEPT !.pc = "done"]
  /\ last' = RunHist("end", NULL, last.checkpointUnit, last.raised)
  /\ UNCHANGED segment_mappings

NextAlign ==
  \/ AlignFetch
  \/ /\ run.pc = "loop"
     /\ \E candidates \in SUBSET CandidatePool, fails \in {"none", "query", "upsert"} :
          AlignUnit(candidates, fails)
  \/ AlignEnd

SpecAlign == InitAlign /\ [][NextAlign]_vars

\* C2: every row of segment_mappings has a confidence within [0, 1].
C2_ConfidenceInUnitInterval ==
  \A r \in segment_mappings : r.confidence >= 0 /\ r.confidence <= ONE

(***************************************************************************)
(* eventMatchGreedy.ts.  An event match is [from_event_idx, to_chapter,    *)
(* similarity]; the matches of an episode are a set of them.               *)
(***************************************************************************)
EVENT_MATCH_CONFIDENCE_THRESHOLD == 3000
MIN_EVENT_MATCHES_PER_EPISODE == 1
GREEDY_MAX_RANGE_WIDTH == 10
CLUSTER_GAP == 2
MAX_PROGRESSIVE_JUMP == 8
SEARCH_WINDOW == 30

RECURSIVE SortedSeq(_)
\* The members of a set of numbers in ascending order
SortedSeq(S) ==
  IF S = {} THEN <<>> ELSE <<SetMin(S)>> \o SortedSeq(S \ {SetMin(S)})

RECURSIVE SumSimilarity(_)
\* reduce((sum, m) => sum + m.similarity, 0)
SumSimilarity(S) ==
  IF S = {} THEN 0
  ELSE LET m == CHOOSE y \in S : TRUE IN m.similarity + SumSimilarity(S \ {m})

RECURSIVE clustersFrom(_, _, _, _, _, _)
\* findBestCluster, lines 275-294: the loop over the sorted chapters from
\* position i on, with the current cluster and the clusters closed so far
clustersFrom(chapters, matches, i, current, clusters, first) ==
  IF i > Len(chapters)
    THEN Append(clusters, current)
    ELSE LET chapter == chapters[i]
             weight == Cardinality({m \in matches : m.to_chapter = chapter})
         IN IF first \/ chapter - current.end <= CLUSTER_GAP
              THEN clustersFrom(chapters, matches, i + 1,
                     [current EXCEPT !.end = chapter, !.weight = @ + weight],
                     clusters, FALSE)
              ELSE clustersFrom(chapters, matches, i + 1,
                     [start |-> chapter, end |-> chapter, weight |-> weight],
                     Append(clusters, current), FALSE)

\* findBestCluster: the cluster of highest weight, the earliest of them on a tie
\* (the sort is stable)
findBestCluster(chapters, matches) ==
  IF Len(chapters) = 1
    THEN [start |-> chapters[1], end |-> chapters[1]]
    ELSE LET clusters == clustersFrom(chapters, matches, 1,
                           [start |-> chapters[1], end |-> chapters[1], weight |-> 0],
                           <<>>, TRUE)
             best == CHOOSE k \in 1..Len(clusters) :
                       /\ \A j \in 1..Len(clusters) : clusters[k].weight >= clusters[j].weight
                       /\ \A j \in 1..(k - 1) : clusters[j].weight < clusters[k].weight
         IN [start |-> clusters[best].start, end |-> clusters[best].end]

\* Line 237: the cluster is wider than the cap
rangeTooWide_Plus5(start, end) == end - start + 1 > GREEDY_MAX_RANGE_WIDTH + 5
rangeTooWide(start, end) == end - start + 1 > GREEDY_MAX_RANGE_WIDTH

\* determineChapterRange's null result
NoRange == [episode |-> NULL]

\* determineChapterRange.  With no match in the capped
\* range the average is 0/0, given here as NULLNUM.
determineChapterRange(episode, matches, minChapter) ==
  LET uniqueChapters == SortedSeq({m.to_chapter : m \in matches})
  IN IF Len(uniqueChapters) = 0 THEN NoRange
     ELSE
       LET found == findBestCluster(uniqueChapters, matches)
           midpoint == (found.start + found.end) \div 2
           half == GREEDY_MAX_RANGE_WIDTH \div 2
           capped == rangeTooWide(found.start, found.end)
           start == IF capped THEN Max2(minChapter, midpoint - half) ELSE found.start
           end == IF capped THEN start + GREEDY_MAX_RANGE_WIDTH - 1 ELSE found.end
           matchesInRange == {m \in matches : m.to_chapter >= start /\ m.to_chapter <= end}
           avgConfidence ==
             IF matchesInRange = {} THEN NULLNUM
             ELSE SumSimilarity(matchesInRange) \div Cardinality(matchesInRange)
       IN [episode |-> episode, chapter_start |-> start, chapter_end |-> end,
           confidence |-> avgConfidence, event_matches |-> Cardinality(matchesInRange),
           evidence |-> "greedy"]

(***************************************************************************)
(* SpecGreedy: one run of runMatchEventsGreedy, anime -> novel.            *)
(***************************************************************************)
GreedyPool ==
  {[from_event_idx |-> x[1], to_chapter |-> x[2], similarity |-> x[3]] :
     x \in {<<0, 1, 9000>>, <<0, 2, 8000>>, <<1, 2, 7000>>, <<1, 12, 6000>>,
            <<0, 40, 9000>>, <<0, 3, 2000>>}}

\* Matches spread over a run of chapters wider than the range cap
WideMatches ==
  {[from_event_idx |-> 0, to_chapter |-> c, similarity |-> 5000] :
     c \in {1, 3, 5, 7, 9, 11, 13}}

\* getEpisodeEventMatches: any matches whose chapters lie in the window and whose
\* similarity reaches the threshold
EpisodeEventMatches(windowStart, windowEnd) ==
  {S \in (SUBSET GreedyPool) \cup {WideMatches} :
     \A m \in S : /\ m.to_chapter >= windowStart /\ m.to_chapter <= windowEnd
                  /\ m.similarity >= EVENT_MATCH_CONFIDENCE_THRESHOLD}

\* Lines 63-64: the window of chapters searched for an episode
searchWindow_Backward(lastMatchedChapter) ==
  [start |-> lastMatchedChapter - 1, end |-> lastMatchedChapter + SEARCH_WINDOW]
searchWindow(lastMatchedChapter) ==
  [start |-> lastMatchedChapter, end |-> lastMatchedChapter + SEARCH_WINDOW]

\* Lines 99-103: the jump from the previous result exceeds the expected maximum
jumpExceeds_OneMore(jump, episodeDiff) == jump > (episodeDiff + 1) * MAX_PROGRESSIVE_JUMP
jumpExceeds(jump, episodeDiff) == jump > episodeDiff * MAX_PROGRESSIVE_JUMP

\* History of a runMatchEventsGreedy step: as RunHist, with the matches retrieved
\* for the episode, the range determineChapterRange proposed from them, and the
\* results and the checkpoint as they were before the step.
GreedyHist(kind, unit, checkpointUnit, raised, eventMatches, proposed) ==
  [kind |-> kind, unit |-> unit, checkpointUnit |-> checkpointUnit, raised |-> raised,
   eventMatches |-> eventMatches, proposed |-> proposed,
   results |-> run.results, lastMatchedChapter |-> run.lastMatchedChapter]

\* The id of the source segment of an episode (saveEpisodeMapping's lookup)
EpisodeSegmentId(fromEditionId, episode) ==
  (CHOOSE s \in SegmentsOf(fromEditionId) : s.number = episode).id

InitGreedy ==
  /\ segment_mappings = {}
  /\ run = [pc |-> "start", episodes |-> <<>>, i |-> 0, lastMatchedChapter |-> 0,
            results |-> <<>>, matched |-> 0, skipped |-> 0, j |-> 0]
  /\ last = [kind |-> "none", unit |-> NULL, checkpointUnit |-> NULL, raised |-> {},
             eventMatches |-> {}, proposed |-> NoRange, results |-> <<>>,
             lastMatchedChapter |-> 0]

\* Lines 43-57: the episodes of the source edition, in order
GreedyFetch ==
  /\ run.pc = "start"
  /\ run' = [run EXCEPT !.pc = "match", !.i = 1,
               !.episodes = SortedSeq({s.number : s \in SegmentsOf("anime")})]
  /\ last' = GreedyHist("fetch", NULL, NULL, {}, {}, NoRange)
  /\ UNCHANGED segment_mappings

\* Lines 59-117, one iteration of the matching loop.  The retrieval query is not
\* inside any try/catch: when it raises, the exception leaves runMatchEventsGreedy.
GreedyEpisode(eventMatches, queryFails) ==
  /\ run.pc = "match" /\ run.i <= Len(run.episodes)
  /\ LET episode == run.episodes[run.i]
         windowStart == searchWindow(run.lastMatchedChapter).start
         windowEnd == searchWindow(run.lastMatchedChapter).end
         unit == EpisodeSegmentId("anime", episode)
         skip(proposed) ==
           /\ run' = [run EXCEPT !.skipped = @ + 1, !.i = @ + 1]
           /\ last' = GreedyHist("skipped", unit, last.checkpointUnit, last.raised,
                                 eventMatches, proposed)
     IN /\ eventMatches \in EpisodeEventMatches(windowStart, windowEnd)
        /\ UNCHANGED segment_mappings
        /\ IF queryFails
             THEN /\ run' = [run EXCEPT !.pc = "thrown"]
                  /\ last' = GreedyHist("raised", unit, last.checkpointUnit,
                                        last.raised \cup {unit}, {}, NoRange)
             ELSE IF Cardinality(eventMatches) = 0
                     \/ Cardinality(eventMatches) < MIN_EVENT_MATCHES_PER_EPISODE
               THEN skip(NoRange)
               ELSE LET result == determineChapterRange(episode, eventMatches,
                                                        run.lastMatchedChapter)
                        prevResult == run.results[Len(run.results)]
                    IN IF result = NoRange
                         THEN skip(NoRange)
                         ELSE IF /\ Len(run.results) > 0
                                 /\ jumpExceeds(result.chapter_start - prevResult.chapter_end,
                                                episode - prevResult.episode)
                           THEN skip(result)
                           ELSE /\ run' = [run EXCEPT
                                     !.results = Append(@, result),
                                     !.matched = @ + 1,
                                     !.lastMatchedChapter = result.chapter_end,
                                     !.i = @ + 1]
                                /\ last' = GreedyHist("matched", unit, unit, last.raised,
                                                      eventMatches, result)

GreedyMatchEnd ==
  /\ run.pc = "match" /\ run.i > Len(run.episodes)
  /\ run' = [run EXCEPT !.pc = "save", !.j = 1]
  /\ last' = GreedyHist("match-end", NULL, last.checkpointUnit, last.raised, {}, NoRange)
  /\ UNCHANGED segment_mappings

\* Lines 121-123, one iteration of the save loop, also outside any try/catch
GreedySave(ioFails) ==
  /\ run.pc = "save" /\ run.j <= Len(run.results)
  /\ LET result == run.results[run.j]
         unit == EpisodeSegmentId("anime", result.episode)
         res == IF ioFails THEN [ok |-> FALSE, tbl |-> segment_mappings]
                ELSE saveEpisodeMapping(segment_mappings, "anime", "novel", result)
     IN /\ segment_mappings' = res.tbl
        /\ IF res.ok
             THEN /\ run' = [run EXCEPT !.j = @ + 1]
                  /\ last' = GreedyHist("saved", unit, last.checkpointUnit, last.raised,
                                        {}, result)
             ELSE /\ run' = [run EXCEPT !.pc = "thrown"]
                  /\ last' = GreedyHist("raised", unit, last.checkpointUnit,
                                        last.raised \cup {unit}, {}, result)

GreedyEnd ==
  /\ run.pc = "save" /\ run.j > Len(run.results)
  /\ run' = [run EXCEPT !.pc = "done"]
  /\ last' = GreedyHist("end", NULL, last.checkpointUnit, last.raised, {}, NoRange)
  /\ UNCHANGED segment_mappings

NextGreedy ==
  \/ GreedyFetch
  \/ /\ run.pc = "match"
     /\ \E eventMatches \in (SUBSET GreedyPool) \cup {WideMatches}, queryFails \in BOOLEAN :
          GreedyEpisode(eventMatches, queryFails)
  \/ GreedyMatchEnd
  \/ \E ioFails \in BOOLEAN : GreedySave(ioFails)
  \/ GreedyEnd

SpecGreedy == InitGreedy /\ [][NextGreedy]_vars

\* C6: whenever the in-run checkpoint comes from a unit's accepted range, the
\* mapping of that unit is already in segment_mappings.
C6_CheckpointOnlyAfterPersist ==
  last.checkpointUnit # NULL =>
    \E r \in segment_mappings :
      r.from_segment_id = last.checkpointUnit /\ r.to_edition_id = "novel"

\* C7: a unit that raises does not stop the run: no exception leaves the run, every
\* unit that raised is counted, and a finished run went through every unit.
C7_FailureDoesNotStopRun ==
  /\ run.pc # "thrown"
  /\ Cardinality(last.raised) <= run.skipped
  /\ run.pc = "done" => run.i > Len(run.episodes)

\* C27: of two results accepted one after the other, p then r, r starts at or
\* after the end of p, also when the width cap recentred the cluster of r.
C27_AcceptedRangesNeverMoveBackward ==
  \A k \in 2..Len(run.results) :
    run.results[k].chapter_start >= run.results[k - 1].chapter_end

\* C27 witness: episode 1 accepted at chapter 1, then episode 2 accepted on the
\* cluster [1, 13], recentred by the cap to [2, 11].
C27_Witness ==
  /\ last.kind = "matched"
  /\ last.eventMatches = WideMatches
  /\ Len(run.results) = 2
  /\ run.results[1].chapter_end = 1
  /\ run.results[2].chapter_start = 2 /\ run.results[2].chapter_end = 11

\* C28: of two results accepted one after the other, p then r, r starts at most
\* 8 chapters per episode of distance past the end of p; a unit whose proposed
\* range starts further is skipped: it adds no result and lastMatchedChapter
\* keeps its value.
C28_ProgressionRateGuard ==
  /\ \A k \in 2..Len(run.results) :
       run.results[k].chapter_start - run.results[k - 1].chapter_end
         <= (run.results[k].episode - run.results[k - 1].episode) * 8
  /\ (/\ last.kind \in {"matched", "skipped"}
      /\ last.proposed # NoRange
      /\ Len(last.results) > 0
      /\ LET p == last.results[Len(last.results)]
         IN last.proposed.chapter_start - p.chapter_end
              > (last.proposed.episode - p.episode) * 8) =>
       /\ last.kind = "skipped"
       /\ run.results = last.results
       /\ run.lastMatchedChapter = last.lastMatchedChapter

\* C28 witness: after episode 1 was accepted at chapter 1, episode 2 proposes
\* chapter 12 (a jump of 11 over one episode) and is skipped.
C28_Witness ==
  /\ last.kind = "skipped"
  /\ last.proposed # NoRange
  /\ last.proposed.episode = 2 /\ last.proposed.chapter_start = 12
  /\ Len(last.results) = 1 /\ last.results[1].chapter_end = 1
  /\ run.lastMatchedChapter = 1

\* C29: every accepted result has a width between 1 and 10 and at least one of
\* the episode's event matches inside its range; its confidence is the mean of
\* the similarities of those matches, each at least 0.3.
C29_AcceptedWidthAndConfidence ==
  /\ \A k \in 1..Len(run.results) :
       LET r == run.results[k]
       IN /\ r.chapter_end - r.chapter_start + 1 >= 1
          /\ r.chapter_end - r.chapter_start + 1 <= 10
          /\ r.event_matches >= 1
          /\ r.confidence >= 3000 /\ r.confidence <= ONE
  /\ last.kind = "matched" =>
       LET r == last.proposed
           inside == {m \in last.eventMatches :
                        m.to_chapter >= r.chapter_start /\ m.to_chapter <= r.chapter_end}
       IN /\ r = run.results[Len(run.results)]
          /\ inside # {}
          /\ \A m \in inside : m.similarity >= 3000
          /\ r.event_matches = Cardinality(inside)
          /\ r.confidence = SumSimilarity(inside) \div Cardinality(inside)

\* C29 witness: a result accepted on a cluster wider than the cap, with
\* matches inside the capped range of width 10.
C29_Witness ==
  /\ last.kind = "matched"
  /\ last.eventMatches = WideMatches
  /\ last.proposed.chapter_end - last.proposed.chapter_start + 1 = 10
  /\ last.proposed.event_matches = 5

(***************************************************************************)
(* SpecInc: invocations of runMatchIncremental (matchingIncremental.ts),   *)
(* anime -> novel, one after another, for source numbers in any order.     *)
(***************************************************************************)
MaxRuns == 2

windowSize == 70
windowBefore == 25
windowAfter == 45
maxWindowSize == 200

NoCheckpoint == [from_segment_id |-> NULL]

\* fetchCheckpoint: of the mappings of the edition pair, the one whose source
\* segment has the highest number
fetchCheckpoint(tbl, fromEditionId, toNovelEditionId) ==
  LET rows == {r \in tbl : /\ r.to_edition_id = toNovelEditionId
                           /\ \E s \in SegmentsOf(fromEditionId) : s.id = r.from_segment_id}
      numberOf(r) == (CHOOSE s \in segments : s.id = r.from_segment_id).number
  IN IF rows = {} THEN NoCheckpoint
     ELSE LET row == CHOOSE r \in rows : \A q \in rows : numberOf(r) >= numberOf(q)
          IN [last_from_number |-> numberOf(row), last_to_end |-> row.to_segment_end,
              from_segment_id |-> row.from_segment_id]

\* Lines 485-491: the checkpoint of a pair with no mappings
ZeroCheckpoint == [last_from_number |-> 0, last_to_end |-> 0, from_segment_id |-> ""]

\* The target editions of the runs: a novel of 300 chapters, and one holding a
\* single chapter
NovelEditions == {"novel", "novel-250"}
NovelNumbers(editionId) ==
  CASE editionId = "novel" -> 1..300
    [] editionId = "novel-250" -> {250}
    [] OTHER -> {}

\* fetchNovelMinMax, for each target edition
fetchNovelMinMax ==
  [editionId \in NovelEditions |->
     [min |-> SetMin(NovelNumbers(editionId)), max |-> SetMax(NovelNumbers(editionId))]]

\* fetchNovelWindow
fetchNovelWindow(editionId, startNum, endNum) ==
  (startNum..endNum) \cap NovelNumbers(editionId)

\* Lines 500-510: the initial window
initialWindow(checkpoint, novelBounds) ==
  LET windowStart == Max2(novelBounds.min, checkpoint.last_to_end - windowBefore)
      windowEnd == Min2(novelBounds.max, checkpoint.last_to_end + windowAfter)
      currentWindowSize == windowEnd - windowStart + 1
      diff == windowSize - currentWindowSize
  IN IF currentWindowSize < windowSize
       THEN [start |-> Max2(novelBounds.min, windowStart - diff \div 2),
             end |-> Min2(novelBounds.max, windowEnd + (diff + 1) \div 2)]
       ELSE [start |-> windowStart, end |-> windowEnd]

\* Lines 579-582: the window of the second attempt
expandedWindow(usedWindow, novelBounds) ==
  LET currentSize == usedWindow.end - usedWindow.start + 1
      expansion == Min2(50, maxWindowSize - currentSize)
  IN [start |-> Max2(novelBounds.min, usedWindow.start - expansion \div 2),
      end |-> Min2(novelBounds.max, usedWindow.end + (expansion + 1) \div 2)]

\* Lines 592-604 with the backward-jump test as >= 3
monotonicGuard_AtLeast3(checkpoint, result) ==
  LET backwardJump == checkpoint.last_to_end - result.to_start
  IN IF backwardJump >= 3 /\ result.confidence < 8000
       THEN [status |-> "proposed",
             adjustedConfidence |-> clamp((result.confidence * 8) \div 10, 0, ONE)]
       ELSE [status |-> determineStatus(result.confidence,
                          rangeWidth(result.to_start, result.to_end), minConfidence),
             adjustedConfidence |-> result.confidence]

\* Lines 592-604: the monotonic guard
monotonicGuard(checkpoint, result) ==
  LET backwardJump == checkpoint.last_to_end - result.to_start
  IN IF backwardJump > 3 /\ result.confidence < 8000
       THEN [status |-> "proposed",
             adjustedConfidence |-> clamp((result.confidence * 8) \div 10, 0, ONE)]
       ELSE [status |-> determineStatus(result.confidence,
                          rangeWidth(result.to_start, result.to_end), minConfidence),
             adjustedConfidence |-> result.confidence]

\* What the LLM may answer (IncrementalResultSchema)
IncResults ==
  {[to_start |-> x[1], to_end |-> x[2], confidence |-> x[3], needs_wider_window |-> x[4]] :
     x \in {<<10, 12, 9000, FALSE>>, <<90, 95, 6000, FALSE>>, <<20, 15, 7000, TRUE>>,
            <<290, 400, 8000, TRUE>>, <<98, 100, 9000, FALSE>>, <<90, 95, 8500, FALSE>>,
            <<97, 99, 6000, FALSE>>}}

\* Line 569-571: whether the window is expanded for another attempt
widenNow_AnyAttempt(response, attempt, currentSize) ==
  response.needs_wider_window /\ currentSize < maxWindowSize
widenNow(response, attempt, currentSize) ==
  response.needs_wider_window /\ attempt = 0 /\ currentSize < maxWindowSize

RECURSIVE attemptLoop(_, _, _, _, _, _)
\* Lines 525-590: the loop `for (attempt = 0; attempt < 2; attempt++)`.  st holds
\* usedWindow, the windows sent to the LLM so far (sent), the responses received,
\* and the number of expansions; its kind tells how the loop ended.  answers[k]
\* is what the LLM answers to the k-th request; fails names the request that raises.
attemptLoop(attempt, st, answers, fails, editionId, novelBounds) ==
  IF attempt >= 2 THEN [st EXCEPT !.kind = "answered"]
  ELSE IF fetchNovelWindow(editionId, st.usedWindow.start, st.usedWindow.end) = {}
    THEN [st EXCEPT !.kind = "empty-window"]
    ELSE IF fails = (IF attempt = 0 THEN "llm1" ELSE "llm2")
      THEN [st EXCEPT !.kind = "llm-failed", !.sent = Append(@, st.usedWindow)]
      ELSE LET response == answers[attempt + 1]
               st2 == [st EXCEPT !.sent = Append(@, st.usedWindow),
                                 !.responses = Append(@, response)]
               currentSize == st.usedWindow.end - st.usedWindow.start + 1
           IN IF widenNow(response, attempt, currentSize)
                THEN attemptLoop(attempt + 1,
                       [st2 EXCEPT !.usedWindow = expandedWindow(st.usedWindow, novelBounds),
                                   !.expansions = @ + 1],
                       answers, fails, editionId, novelBounds)
                ELSE [st2 EXCEPT !.kind = "answered"]

\* History of an invocation: its source number and segment, the checkpoint it
\* reconstructed, the bounds of the target edition, the initial window, and the
\* state of the attempt loop when it ended (kind is then how the invocation ended).
IncHist(kind, fromNumber, unit, checkpoint, novelBounds, initial, st) ==
  [kind |-> kind, fromNumber |-> fromNumber, unit |-> unit, checkpoint |-> checkpoint,
   novelBounds |-> novelBounds, initialWindow |-> initial, usedWindow |-> st.usedWindow,
   sent |-> st.sent, responses |-> st.responses, expansions |-> st.expansions]

\* The attempt loop before its first iteration
LoopStart(usedWindow) ==
  [kind |-> "loop", usedWindow |-> usedWindow, sent |-> <<>>, responses |-> <<>>,
   expansions |-> 0]

InitInc ==
  /\ segment_mappings = {}
  /\ \E toNovelEditionId \in NovelEditions :
       run = [calls |-> 0, toNovelEditionId |-> toNovelEditionId]
  /\ last = IncHist("none", 0, NULL, NoCheckpoint, NULL, NULL, LoopStart(NULL))

\* One invocation of runMatchIncremental for source number fromNumber.  first and
\* second are the answers of the LLM to the first and (when the window is
\* widened) the second attempt; fails names the call that raises, if any.
runMatchIncremental(fromNumber, first, second, fails) ==
  /\ run.calls < MaxRuns
  /\ run' = [run EXCEPT !.calls = @ + 1]
  /\ LET fromSegment == {s \in SegmentsOf("anime") : s.number = fromNumber}
         segment == CHOOSE s \in fromSegment : TRUE
         fetched == fetchCheckpoint(segment_mappings, "anime", run.toNovelEditionId)
         checkpoint == IF fetched = NoCheckpoint THEN ZeroCheckpoint ELSE fetched
         novelBounds == fetchNovelMinMax[run.toNovelEditionId]
         window1 == initialWindow(checkpoint, novelBounds)
         st == attemptLoop(0, LoopStart(window1), <<first, second>>, fails,
                           run.toNovelEditionId, novelBounds)
         result == st.responses[Len(st.responses)]
         guard == monotonicGuard(checkpoint, result)
         res == IF fails = "upsert" THEN [ok |-> FALSE, tbl |-> segment_mappings]
                ELSE upsertMapping_incremental(segment_mappings, segment.id, "anime",
                       fromNumber, run.toNovelEditionId, result.to_start, result.to_end,
                       clamp(guard.adjustedConfidence, 0, ONE), "inc", guard.status,
                       AlgoVersion("inc"))
     IN IF fromSegment = {}
          THEN /\ last' = IncHist("not-found", fromNumber, NULL, NoCheckpoint, NULL, NULL,
                                  LoopStart(NULL))
               /\ UNCHANGED segment_mappings
          ELSE IF st.kind # "answered"
            THEN /\ last' = IncHist(st.kind, fromNumber, segment.id, checkpoint, novelBounds,
                                    window1, st)
                 /\ UNCHANGED segment_mappings
            ELSE /\ segment_mappings' = res.tbl
                 /\ last' = IncHist(IF res.ok THEN "persisted" ELSE "upsert-failed",
                                    fromNumber, segment.id, checkpoint, novelBounds,
                                    window1, st)

\* The second answer is only read when the first asks for a wider window.
NextInc ==
  \E fromNumber \in {1, 2, 9}, first \in IncResults,
     fails \in {"none", "llm1", "llm2", "upsert"} :
    \E second \in IF first.needs_wider_window THEN IncResults ELSE {first} :
      runMatchIncremental(fromNumber, first, second, fails)

SpecInc == InitInc /\ [][NextInc]_vars

\* C8: the checkpoint an invocation on source number N reconstructs is the zero
\* checkpoint or comes from the mapping of a source segment whose number is below N.
C8_CheckpointFromEarlierUnit ==
  last.checkpoint # NoCheckpoint =>
    \/ last.checkpoint = ZeroCheckpoint
    \/ last.checkpoint.last_from_number < last.fromNumber

(***************************************************************************)
(* eventMatch.ts, the voting matcher.  A row of segment_event_embeddings   *)
(* is given by its target segment number, its event index and its          *)
(* similarity to the query embedding: [segment_number, event_idx,          *)
(* similarity].                                                            *)
(***************************************************************************)
MAX_RANGE_WIDTH == 15
MAX_FORWARD_JUMP == 30
\* 0.01
CLUSTER_THRESHOLD == 100
\* 0.1
JUMP_PENALTY_PER_10 == 1000
\* 0.4
MIN_CONFIDENCE == 4000
\* config.topK
topK == 20

\* The rows of highest similarity (lowest distance) among rows
NearestRows(rows) == {r \in rows : \A q \in rows : r.similarity >= q.similarity}

RECURSIVE OrderedByDistance(_, _)
\* ORDER BY see.embedding <=> $1 LIMIT k: the first k rows in order of distance.
\* The statement names no second sort key, so rows at equal distance come in
\* whatever order the scan produces: every such order is a possible answer.
OrderedByDistance(rows, k) ==
  IF rows = {} \/ k = 0 THEN {<<>>}
  ELSE UNION {{<<r>> \o t : t \in OrderedByDistance(rows \ {r}, k - 1)} :
                r \in NearestRows(rows)}

\* searchEventCandidates without the range clause
searchEventCandidates_NoRange(rows, minNumber, maxNumber, k) ==
  OrderedByDistance(rows, k)
\* searchEventCandidates: the possible answers for one query embedding
searchEventCandidates(rows, minNumber, maxNumber, k) ==
  OrderedByDistance(
    {r \in rows : (minNumber # NULLNUM /\ maxNumber # NULLNUM) =>
                    (r.segment_number >= minNumber /\ r.segment_number <= maxNumber)},
    k)

RECURSIVE Retrievals(_, _, _)
\* The possible answers to the queries of a source segment, one per event
\* embedding, in the order of the loop of lines 137-152
Retrievals(eventSims, minNumber, maxNumber) ==
  IF eventSims = <<>> THEN {<<>>}
  ELSE {<<c>> \o t : c \in searchEventCandidates(Head(eventSims), minNumber, maxNumber, topK),
                     t \in Retrievals(Tail(eventSims), minNumber, maxNumber)}

RECURSIVE Flatten(_)
\* The candidates of all the queries in the order the vote loop sees them
Flatten(ss) == IF ss = <<>> THEN <<>> ELSE Head(ss) \o Flatten(Tail(ss))

\* Lines 135-165: the votes map as segmentVotes.  `first` is the position of the
\* key in the map's insertion order (the first candidate that named it).
segmentVotes(cands) ==
  LET idx(n) == {i \in 1..Len(cands) : cands[i].segment_number = n}
      total(n) == SumSimilarity({[i |-> i, similarity |-> cands[i].similarity] : i \in idx(n)})
  IN {[segment_number |-> n, total_similarity |-> total(n),
       vote_count |-> Cardinality(idx(n)),
       avg_similarity |-> total(n) \div Cardinality(idx(n)),
       first |-> SetMin(idx(n))] :
        n \in {cands[i].segment_number : i \in 1..Len(cands)}}

\* Lines 167-169: segmentVotes[0] after the sort by avg_similarity descending.  The
\* sort is stable: among equal averages the earliest inserted key comes first.
topVote(votes) ==
  CHOOSE v \in votes :
    \A w \in votes : \/ v.avg_similarity > w.avg_similarity
                     \/ v.avg_similarity = w.avg_similarity /\ v.first <= w.first

RECURSIVE clusterAround(_, _, _, _)
\* Lines 181-189: one pass over the sorted numbers, extending the cluster
clusterAround(sorted, i, clusterStart, clusterEnd) ==
  IF i > Len(sorted) THEN [start |-> clusterStart, end |-> clusterEnd]
  ELSE LET num == sorted[i]
       IN IF num >= clusterStart - 2 /\ num <= clusterEnd + 2
            THEN clusterAround(sorted, i + 1, Min2(clusterStart, num), Max2(clusterEnd, num))
            ELSE clusterAround(sorted, i + 1, clusterStart, clusterEnd)

\* Line 213, with the quotient by 10 taken last
jumpPenalty_PerHundred(excessJump) == (excessJump * JUMP_PENALTY_PER_10) \div 100
jumpPenalty(excessJump) == (excessJump * JUMP_PENALTY_PER_10) \div 10

\* Line 219: the jump that rejects the mapping
jumpTooExtreme_Triple(forwardJump) == forwardJump > MAX_FORWARD_JUMP * 3
jumpTooExtreme(forwardJump) == forwardJump > MAX_FORWARD_JUMP * 2

\* Lines 198-201: the capped range, starting at the midpoint
cappedRange_FromMidpoint(toSegmentStart, toSegmentEnd) ==
  LET midpoint == (toSegmentStart + toSegmentEnd) \div 2
  IN [start |-> midpoint, end |-> midpoint + MAX_RANGE_WIDTH - 1]
\* Lines 198-201: the capped range, centred on the midpoint of the cluster
cappedRange(toSegmentStart, toSegmentEnd) ==
  LET midpoint == (toSegmentStart + toSegmentEnd) \div 2
      half == MAX_RANGE_WIDTH \div 2
      cappedStart == midpoint - half
  IN [start |-> cappedStart, end |-> cappedStart + MAX_RANGE_WIDTH - 1]

\* Line 228: the confidence that rejects the mapping
belowMinConfidence_Lenient(confidence) == confidence < MIN_CONFIDENCE - 1000
belowMinConfidence(confidence) == confidence < MIN_CONFIDENCE

\* matchSegmentByEvents returning null before it has a cluster
NoMatch(why) == [kind |-> why]

\* matchSegmentByEvents, lines 154-237 and 282: from the candidates to the range
\* it persists (finalStart, finalEnd), the confidence, and the range it returns
\* (toSegmentStart, toSegmentEnd).  kind tells how it returns: "match" after the
\* upsert, anything else is null ("jump-rejected" and "low-confidence" keep the
\* values of the local variables at the return).  selected holds the segment
\* numbers of inRange as line 174 computes it and bestSegNum the one of line 177.
voteResult(cands, lastBestToNumber) ==
  IF Len(cands) = 0 THEN NoMatch("no-votes")
  ELSE
    LET votes == segmentVotes(cands)
        top == topVote(votes)
        threshold == top.avg_similarity - CLUSTER_THRESHOLD
        inRange == {v \in votes : v.avg_similarity >= threshold}
        bestSegNum == top.segment_number
        sorted == SortedSeq({v.segment_number : v \in inRange})
        cluster == clusterAround(sorted, 1, bestSegNum, bestSegNum)
        toSegmentStart == cluster.start
        toSegmentEnd == cluster.end
        width == toSegmentEnd - toSegmentStart + 1
        cappedStart == cappedRange(toSegmentStart, toSegmentEnd).start
        cappedEnd == cappedRange(toSegmentStart, toSegmentEnd).end
        inRangeCapped ==
          IF width > MAX_RANGE_WIDTH
            THEN {v \in inRange : v.segment_number >= cappedStart /\ v.segment_number <= cappedEnd}
            ELSE inRange
        forwardJump == toSegmentStart - lastBestToNumber
        penalty == IF lastBestToNumber # NULLNUM /\ forwardJump > MAX_FORWARD_JUMP
                     THEN jumpPenalty(forwardJump - MAX_FORWARD_JUMP) ELSE 0
        baseConfidence == top.avg_similarity - penalty
        confidence == Max2(0, Min2(ONE, baseConfidence))
        finalNumbers == {v.segment_number : v \in inRangeCapped}
        locals == [kind |-> "match", toSegmentStart |-> toSegmentStart,
                   toSegmentEnd |-> toSegmentEnd, finalStart |-> SetMin(finalNumbers),
                   finalEnd |-> SetMax(finalNumbers), confidence |-> confidence,
                   base_confidence |-> top.avg_similarity,
                   selected |-> {v.segment_number : v \in inRange},
                   bestSegNum |-> bestSegNum]
    IN IF lastBestToNumber # NULLNUM /\ jumpTooExtreme(forwardJump)
         THEN [locals EXCEPT !.kind = "jump-rejected"]
         ELSE IF belowMinConfidence(confidence)
           THEN [locals EXCEPT !.kind = "low-confidence"]
           ELSE locals

(***************************************************************************)
(* SpecEvents: one run of runMatchEvents, anime -> novel.                  *)
(*                                                                         *)
(* For each source segment the index holds, per event embedding of the     *)
(* segment, the rows of the target edition with their similarity to it     *)
(* (eventSims).  The run's queries are answered in some order of distance  *)
(* (retrieval); a second execution of the same unit on the same inputs is  *)
(* answered in some order of distance too (again).                         *)
(***************************************************************************)
EventRow(n, e, sim) == [segment_number |-> n, event_idx |-> e, similarity |-> sim]

\* The index contents tried: a single chapter 50; chapters at equal similarity
\* (10 and 50, 60 and 95); a chapter 45 and one 61 past chapter 50, at high and at
\* low similarity; two event embeddings voting on chapters 10..12; chapters
\* 50, 52, .., 66 within the cluster threshold of each other; and chapters 6, 8
\* and 10 within the threshold, 10 the best; and chapters 46 and 47, 46 the nearer.
EventIndexes ==
  {<<{EventRow(50, 0, 9000)}>>,
   <<{EventRow(10, 0, 9000), EventRow(50, 0, 9000)}>>,
   <<{EventRow(60, 0, 9000), EventRow(95, 0, 9000)}>>,
   <<{EventRow(95, 0, 9000)}>>,
   <<{EventRow(111, 0, 9000)}>>,
   <<{EventRow(95, 0, 5000)}>>,
   <<{EventRow(10, 0, 9000), EventRow(11, 0, 8950)},
     {EventRow(10, 1, 8000), EventRow(12, 1, 9000)}>>,
   <<{EventRow(50 + 2 * j, 0, 9000 - 10 * j) : j \in 0..8}>>,
   <<{EventRow(6, 0, 8950), EventRow(8, 0, 8960), EventRow(10, 0, 9000)}>>,
   <<{EventRow(46, 0, 9500), EventRow(47, 0, 9000)}>>}

\* fetchFromSegmentsWithEvents: the source segments that have event embeddings,
\* in order of number, at most `limit`
fetchFromSegmentsWithEvents(editionId, limit) ==
  {s \in SegmentsOf(editionId) :
     Cardinality({t \in SegmentsOf(editionId) : t.number < s.number}) < limit}

\* History of a runMatchEvents step: as RunHist, with the result of the unit, the
\* result of executing the unit again on the same inputs, and the checkpoint and
\* the table as they were before the step.
EventsHist(kind, unit, checkpointUnit, raised, result, again) ==
  [kind |-> kind, unit |-> unit, checkpointUnit |-> checkpointUnit, raised |-> raised,
   result |-> result, again |-> again,
   lastBestToNumber |-> run.lastBestToNumber, tbl |-> segment_mappings]

InitEvents ==
  /\ segment_mappings \in
       {{}, Persist("all", {}, CHOOSE s \in segments : s.id = "a2", "novel", 3, 4, 7000).tbl}
  /\ \E limit \in 0..MaxLimit :
       run = [pc |-> "start", limit |-> limit, windowSize |-> window,
              backtrack |-> backtrack, fromSegments |-> {}, k |-> 0,
              lastBestToNumber |-> NULLNUM, processed |-> 0, matched |-> 0, errors |-> 0]
  /\ last = [kind |-> "none", unit |-> NULL, checkpointUnit |-> NULL, raised |-> {},
             result |-> NoMatch("none"), again |-> NoMatch("none"),
             lastBestToNumber |-> NULLNUM, tbl |-> {}]

\* Lines 40-51
EventsFetch ==
  /\ run.pc = "start"
  /\ LET fromSegments == fetchFromSegmentsWithEvents("anime", run.limit)
     IN run' = [run EXCEPT !.fromSegments = fromSegments, !.k = 1,
                  !.pc = IF Cardinality(fromSegments) = 0 THEN "returned" ELSE "loop"]
  /\ last' = EventsHist("fetch", NULL, NULL, {}, NoMatch("none"), NoMatch("none"))
  /\ UNCHANGED segment_mappings

\* Lines 53-79, one iteration: matchSegmentByEvents for the next source segment,
\* inside try/catch.  A query or the upsert may raise (fails): the catch counts
\* the error, and processed is not incremented.
EventsUnit(eventSims, retrieval, again, fails) ==
  /\ run.pc = "loop" /\ run.k <= Cardinality(run.fromSegments)
  /\ LET fromSeg == NthSegment(run.fromSegments, run.k)
         lastBest == run.lastBestToNumber
         minNumber == IF lastBest # NULLNUM THEN lastBest - run.backtrack ELSE NULLNUM
         maxNumber == IF lastBest # NULLNUM THEN lastBest + run.windowSize ELSE NULLNUM
         answers == Retrievals(eventSims, minNumber, maxNumber)
         result == voteResult(Flatten(retrieval), lastBest)
         resultAgain == voteResult(Flatten(again), lastBest)
         res == IF fails = "upsert" THEN [ok |-> FALSE, tbl |-> segment_mappings]
                ELSE Persist("events", segment_mappings, fromSeg, "novel",
                             result.finalStart, result.finalEnd, result.confidence)
     IN /\ retrieval \in answers
        /\ again \in answers
        /\ IF fails = "query"
             THEN /\ run' = [run EXCEPT !.errors = @ + 1, !.k = @ + 1]
                  /\ last' = EventsHist("raised", fromSeg.id, last.checkpointUnit,
                                        last.raised \cup {fromSeg.id}, NoMatch("raised"),
                                        NoMatch("raised"))
                  /\ UNCHANGED segment_mappings
             ELSE IF result.kind # "match"
               THEN /\ run' = [run EXCEPT !.processed = @ + 1, !.k = @ + 1]
                    /\ last' = EventsHist("no-result", fromSeg.id, last.checkpointUnit,
                                          last.raised, result, resultAgain)
                    /\ UNCHANGED segment_mappings
               ELSE /\ segment_mappings' = res.tbl
                    /\ IF res.ok
                         THEN /\ run' = [run EXCEPT
                                   !.lastBestToNumber =
                                      (result.toSegmentStart + result.toSegmentEnd) \div 2,
                                   !.matched = @ + 1, !.processed = @ + 1, !.k = @ + 1]
                              /\ last' = EventsHist("matched", fromSeg.id, fromSeg.id,
                                                    last.raised, result, resultAgain)
                         ELSE /\ run' = [run EXCEPT !.errors = @ + 1, !.k = @ + 1]
                              /\ last' = EventsHist("raised", fromSeg.id, last.checkpointUnit,
                                                    last.raised \cup {fromSeg.id},
                                                    NoMatch("raised"), NoMatch("raised"))

EventsEnd ==
  /\ run.pc = "loop" /\ run.k > Cardinality(run.fromSegments)
  /\ run' = [run EXCEPT !.pc = "done"]
  /\ last' = EventsHist("end", NULL, last.checkpointUnit, last.raised, NoMatch("none"),
                        NoMatch("none"))
  /\ UNCHANGED segment_mappings

NextEvents ==
  \/ EventsFetch
  \/ /\ run.pc = "loop"
     /\ \E eventSims \in EventIndexes, fails \in {"none", "query", "upsert"} :
          LET lastBest == run.lastBestToNumber
              answers == Retrievals(eventSims,
                           IF lastBest # NULLNUM THEN lastBest - run.backtrack ELSE NULLNUM,
                           IF lastBest # NULLNUM THEN lastBest + run.windowSize ELSE NULLNUM)
          IN \E retrieval \in answers, again \in answers :
               EventsUnit(eventSims, retrieval, again, fails)
  \/ EventsEnd

SpecEvents == InitEvents /\ [][NextEvents]_vars

\* What a result persists: the range and the confidence of the upsert, or nothing
PersistedOf(result) ==
  IF result.kind = "match"
    THEN <<result.finalStart, result.finalEnd, result.confidence>>
    ELSE <<>>

\* C11: two executions of matchSegmentByEvents on one source segment, with the same
\* event embeddings, the same index contents and the same checkpoint, persist the
\* same range and confidence (or both persist nothing).
C11_SameInputsSamePersisted ==
  last.kind \in {"matched", "no-result"} =>
    PersistedOf(last.result) = PersistedOf(last.again)

\* C13 (as stated): with checkpoint 50 and a proposed cluster start of 95, the
\* confidence is the base confidence less 0.015.
C13_PenaltyIs0015 ==
  (last.kind = "matched" /\ last.lastBestToNumber = 50 /\ last.result.toSegmentStart = 95) =>
    last.result.confidence = last.result.base_confidence - 150

\* C13 (amended): with checkpoint 50 and a proposed cluster start of 95 (excess 15
\* over the maximum forward jump of 30), the confidence is the base confidence less
\* 0.15; in general a start more than 30 past the checkpoint costs 0.01 per unit
\* of excess, and a start within 30 costs nothing.
C13_PenaltyIsTenthPerTen ==
  (last.kind = "matched" /\ last.lastBestToNumber # NULLNUM) =>
    LET forwardJump == last.result.toSegmentStart - last.lastBestToNumber
        base == last.result.base_confidence
    IN /\ (last.lastBestToNumber = 50 /\ last.result.toSegmentStart = 95) =>
            last.result.confidence = base - 1500
       /\ forwardJump > 30 =>
            last.result.confidence = clamp(base - 100 * (forwardJump - 30), 0, ONE)
       /\ forwardJump <= 30 => last.result.confidence = clamp(base, 0, ONE)

\* C13 witness: a unit matched at cluster start 95 from checkpoint 50, and its
\* penalized confidence is what the upsert stored.
C13_Witness ==
  /\ last.kind = "matched"
  /\ last.lastBestToNumber = 50
  /\ last.result.toSegmentStart = 95
  /\ \E r \in segment_mappings :
       r.from_segment_id = last.unit /\ r.confidence = last.result.confidence

\* C14: a unit whose proposed cluster start is more than 60 past the checkpoint
\* gets no mapping: the table (any existing row of the unit included) is as it was
\* before the unit, and the checkpoint keeps its value.
C14_ExtremeJumpRejected ==
  (/\ last.kind \in {"matched", "no-result"}
   /\ last.lastBestToNumber # NULLNUM
   /\ last.result.kind # "no-votes"
   /\ last.result.toSegmentStart - last.lastBestToNumber > 60) =>
    /\ last.kind = "no-result"
    /\ segment_mappings = last.tbl
    /\ run.lastBestToNumber = last.lastBestToNumber

\* C14 witness: checkpoint 50, cluster start 111, for a unit that had a row.
C14_Witness ==
  /\ last.kind = "no-result"
  /\ last.lastBestToNumber = 50
  /\ last.result.kind = "jump-rejected"
  /\ last.result.toSegmentStart = 111
  /\ \E r \in segment_mappings : r.from_segment_id = last.unit

\* C21: the cluster [clusterStart, clusterEnd] the voting matcher forms is the
\* span of the maximal set of selected target numbers that contains the best
\* number and in which consecutive numbers differ by at most 2; with selected
\* numbers {6, 8, 10} and best 10 it is [6, 10].
C21_ClusterIsMaximalGapComponent ==
  (last.kind \in {"matched", "no-result"} /\ last.result.kind # "no-votes") =>
    LET selected == last.result.selected
        best == last.result.bestSegNum
        \* the selected numbers joined to best by a chain of selected numbers
        \* in which neighbours differ by at most 2
        comp == {n \in selected :
                   \A m \in selected :
                     (Min2(n, best) <= m /\ m < Max2(n, best)) =>
                       \E m2 \in selected : m < m2 /\ m2 <= m + 2}
    IN /\ last.result.toSegmentStart = SetMin(comp)
       /\ last.result.toSegmentEnd = SetMax(comp)
       /\ (last.result.selected = {6, 8, 10} /\ last.result.bestSegNum = 10) =>
            (last.result.toSegmentStart = 6 /\ last.result.toSegmentEnd = 10)

\* The row the table holds for the unit of the last step
EventsRow == TheRow(segment_mappings, last.unit, "novel")

\* C22: the range the voting matcher persists lies within the contiguous cluster
\* around the best number (the selected numbers chained to it by gaps of at most
\* 2): a selected number outside that cluster never widens the persisted range.
C22_PersistedRangeWithinCluster ==
  last.kind = "matched" =>
    LET selected == last.result.selected
        best == last.result.bestSegNum
        comp == {n \in selected :
                   \A m \in selected :
                     (Min2(n, best) <= m /\ m < Max2(n, best)) =>
                       \E m2 \in selected : m < m2 /\ m2 <= m + 2}
    IN /\ EventsRow.to_segment_start >= SetMin(comp)
       /\ EventsRow.to_segment_end <= SetMax(comp)

\* C23: every mapping the voting matcher persists has width at most 15.
C23_PersistedWidthAtMost15 ==
  last.kind = "matched" =>
    EventsRow.to_segment_end - EventsRow.to_segment_start + 1 <= 15

\* C24: every mapping the voting matcher persists has confidence in [0.4, 1]; a
\* unit whose confidence after the forward-jump penalty is below 0.4 is rejected:
\* the table is as it was before the unit and the checkpoint keeps its value.
C24_MinConfidenceEnforced ==
  (last.kind \in {"matched", "no-result"} /\ last.result.kind # "no-votes") =>
    LET forwardJump == last.result.toSegmentStart - last.lastBestToNumber
        penalty == IF last.lastBestToNumber # NULLNUM /\ forwardJump > 30
                     THEN 100 * (forwardJump - 30) ELSE 0
        penalized == clamp(last.result.base_confidence - penalty, 0, ONE)
    IN /\ last.kind = "matched" =>
            (EventsRow.confidence >= 4000 /\ EventsRow.confidence <= ONE)
       /\ penalized < 4000 =>
            /\ last.kind = "no-result"
            /\ segment_mappings = last.tbl
            /\ run.lastBestToNumber = last.lastBestToNumber

\* C24 witness: from checkpoint 50 a cluster start of 95 at similarity 0.5 is
\* penalized to 0.35 and rejected, for a unit that had a row.
C24_Witness ==
  /\ last.kind = "no-result"
  /\ last.result.kind = "low-confidence"
  /\ last.lastBestToNumber = 50
  /\ last.result.toSegmentStart = 95
  /\ last.result.base_confidence = 5000
  /\ \E r \in segment_mappings : r.from_segment_id = last.unit

\* C25: after a unit is accepted the checkpoint is floor((s + e) / 2) of the
\* range [s, e] persisted for that unit.
C25_CheckpointIsPersistedMidpoint ==
  last.kind = "matched" =>
    run.lastBestToNumber =
      (EventsRow.to_segment_start + EventsRow.to_segment_end) \div 2

\* C32 (as stated): the range persisted for a unit contains the best-scoring
\* target number, also when the cluster is wider than 15 and is truncated.
C32_PersistedRangeContainsBest ==
  last.kind = "matched" =>
    /\ EventsRow.to_segment_start <= last.result.bestSegNum
    /\ last.result.bestSegNum <= EventsRow.to_segment_end

\* C32 (amended): the range persisted for a unit contains the best-scoring
\* target number whenever the cluster around it is at most 15 wide; when the
\* cluster [s, e] is wider, the persisted range lies within the 15 numbers
\* centred on floor((s + e) / 2), whether or not the best number is among them.
C32_ContainsBestUnlessTruncated ==
  last.kind = "matched" =>
    LET s == last.result.toSegmentStart
        e == last.result.toSegmentEnd
        mid == (s + e) \div 2
    IN /\ e - s + 1 <= 15 =>
            /\ EventsRow.to_segment_start <= last.result.bestSegNum
            /\ last.result.bestSegNum <= EventsRow.to_segment_end
       /\ e - s + 1 > 15 =>
            /\ EventsRow.to_segment_start >= mid - 7
            /\ EventsRow.to_segment_end <= mid + 7

\* C32 witness: the cluster [50, 66] with best number 50 is truncated and the row
\* is written with the range [52, 64].
C32_Witness ==
  /\ last.kind = "matched"
  /\ last.result.bestSegNum = 50
  /\ last.result.toSegmentStart = 50 /\ last.result.toSegmentEnd = 66
  /\ EventsRow.to_segment_start = 52 /\ EventsRow.to_segment_end = 64

\* C33: for every unit accepted with a checkpoint c, the new checkpoint c' lies
\* in [c - backtrack, c + windowSize].
C33_CheckpointWithinWindow ==
  (last.kind = "matched" /\ last.lastBestToNumber # NULLNUM) =>
    /\ run.lastBestToNumber >= last.lastBestToNumber - 3
    /\ run.lastBestToNumber <= last.lastBestToNumber + 80

\* C33 witness: from checkpoint 50 a unit whose nearest chapter, 46, is outside
\* the window is accepted at chapter 47, and the checkpoint regresses by 3.
C33_Witness ==
  /\ last.kind = "matched"
  /\ last.lastBestToNumber = 50
  /\ run.lastBestToNumber = 47

(***************************************************************************)
(* Properties of runMatchIncremental, under SpecInc.                       *)
(***************************************************************************)
\* The response the invocation accepted, and the row it wrote
IncResponse == last.responses[Len(last.responses)]
IncRow == TheRow(segment_mappings, last.unit, run.toNovelEditionId)

\* C12: the monotonic-violation path is taken exactly when checkpoint.last_to_end -
\* to_start > 3 and the LLM confidence is below 0.80: then the persisted confidence
\* is 0.8 times the LLM confidence and the status is 'proposed' (checkpoint 100,
\* start 90, confidence 0.6 gives 0.48); otherwise (confidence 0.85, or a backward
\* jump of exactly 3) the persisted confidence is the LLM's, not scaled by 0.8.
C12_MonotonicGuardFiresExactly ==
  last.kind = "persisted" =>
    LET backwardJump == last.checkpoint.last_to_end - IncResponse.to_start
        fires == backwardJump > 3 /\ IncResponse.confidence < 8000
    IN /\ fires => /\ IncRow.confidence = (IncResponse.confidence * 8) \div 10
                   /\ IncRow.status = "proposed"
       /\ ~fires => IncRow.confidence = IncResponse.confidence
       /\ (last.checkpoint.last_to_end = 100 /\ IncResponse.to_start = 90
           /\ IncResponse.confidence = 6000) => IncRow.confidence = 4800
       /\ (last.checkpoint.last_to_end = 100 /\ IncResponse.to_start = 90
           /\ IncResponse.confidence = 8500) => IncRow.confidence = 8500
       /\ (backwardJump = 3 /\ IncResponse.confidence = 6000) => IncRow.confidence = 6000

\* C12 witness: checkpoint 100, start 90 and confidence 0.6 persisted as 0.48.
C12_Witness ==
  /\ last.kind = "persisted"
  /\ last.checkpoint.last_to_end = 100
  /\ IncResponse.to_start = 90
  /\ IncResponse.confidence = 6000
  /\ IncRow.confidence = 4800

\* The width of a window
WindowWidth(w) == w.end - w.start + 1

C19_InitialWindowMinWidth ==
  last.kind \in {"persisted", "upsert-failed", "llm-failed", "empty-window"} =>
    WindowWidth(last.initialWindow) >=
      Min2(windowSize, last.novelBounds.max - last.novelBounds.min + 1)

\* C20: a mapping persisted by runMatchIncremental whose range is wider than 20
\* has the LLM confidence times 0.7 (times the monotonic-violation factor when the
\* guard fired); a narrower one has no wide-range factor.
C20_WideRangeFactorApplied ==
  last.kind = "persisted" =>
    LET guarded == monotonicGuard(last.checkpoint, IncResponse).adjustedConfidence
        width == rangeWidth(IncResponse.to_start, IncResponse.to_end)
    IN IncRow.confidence =
         (IF width > 20 THEN clamp((guarded * 7) \div 10, 0, ONE) ELSE guarded)

\* C34: every range persisted by runMatchIncremental lies inside the window that
\* was sent to the LLM for the accepted response: usedWindow.start <= to_start
\* and to_end <= usedWindow.end.
C34_PersistedRangeInsideUsedWindow ==
  last.kind = "persisted" =>
    /\ last.usedWindow.start <= IncRow.to_segment_start
    /\ IncRow.to_segment_end <= last.usedWindow.end

\* C35: whenever runMatchIncremental, with a checkpoint reconstructed from the
\* persisted mappings, fetches the target window, its start is not above its end,
\* also when the stored to_segment_end of the checkpoint lies
\* beyond the last ordinal of the target edition; so an invocation for an existing
\* source segment never ends with an empty window.
C35_WindowNeverEmpty ==
  (/\ last.kind \in {"persisted", "upsert-failed", "llm-failed", "empty-window"}
   /\ last.checkpoint.from_segment_id # "") =>
    /\ last.initialWindow.start <= last.initialWindow.end
    /\ last.usedWindow.start <= last.usedWindow.end
    /\ last.kind # "empty-window"

(***************************************************************************)
(* deriveAnimeManhwa.ts.  An overlap ratio is a quotient; a derived        *)
(* confidence confA * confM * overlap / min(lenA, lenM) is computed in one *)
(* division, rounded down to the confidence unit.                          *)
(***************************************************************************)
\* utils.ts overlapLength
overlapLength(aStart, aEnd, bStart, bEnd) ==
  Max2(0, Min2(aEnd, bEnd) - Max2(aStart, bStart) + 1)

\* utils.ts overlapRatio, as the pair <<numerator, denominator>>, relative to the
\* first range instead of the smaller one
overlapRatio_OfFirst(aStart, aEnd, bStart, bEnd) ==
  LET overlap == overlapLength(aStart, aEnd, bStart, bEnd)
  IN IF overlap = 0 THEN <<0, 1>> ELSE <<overlap, aEnd - aStart + 1>>

\* utils.ts overlapRatio, as the pair <<numerator, denominator>>
overlapRatio(aStart, aEnd, bStart, bEnd) ==
  LET overlap == overlapLength(aStart, aEnd, bStart, bEnd)
      lenA == aEnd - aStart + 1
      lenB == bEnd - bStart + 1
  IN IF overlap = 0 THEN <<0, 1>> ELSE <<overlap, Min2(lenA, lenB)>>

\* fetchAnimeToNovelMappings / fetchManhwaToNovelMappings: the mappings of the
\* segments of an edition to the novel edition, in order of segment number
fetchToNovelMappings(tbl, editionId, novelEditionId) ==
  LET rows == {[from_segment_id |-> r.from_segment_id,
                from_segment_number |->
                  (CHOOSE s \in segments : s.id = r.from_segment_id).number,
                to_segment_start |-> r.to_segment_start,
                to_segment_end |-> r.to_segment_end,
                confidence |-> r.confidence] :
                 r \in {q \in tbl : /\ q.to_edition_id = novelEditionId
                                    /\ \E s \in SegmentsOf(editionId) :
                                         s.id = q.from_segment_id}}
  IN [k \in 1..Cardinality(rows) |->
        CHOOSE m \in rows :
          Cardinality({t \in rows : t.from_segment_number < m.from_segment_number}) = k - 1]

\* deriveAnimeManhwaMapping line 209: the derived confidence of a pair
derivedConf(animeMapping, mMapping) ==
  LET ratio == overlapRatio(animeMapping.to_segment_start, animeMapping.to_segment_end,
                            mMapping.to_segment_start, mMapping.to_segment_end)
  IN clamp((animeMapping.confidence * mMapping.confidence * ratio[1]) \div (ONE * ratio[2]),
           0, ONE)

\* Line 240: the next number continues the range
withinGap_Three(number, manhwaEnd) == number - manhwaEnd <= 3
withinGap(number, manhwaEnd) == number - manhwaEnd <= 2

\* Lines 233-234: the numbers of the kept pairs, in descending order
sortedManhwaNumbers_Descending(numbers) ==
  LET asc == SortedSeq(numbers) IN [k \in 1..Len(asc) |-> asc[Len(asc) + 1 - k]]
\* Lines 233-234: the numbers of the kept pairs, sorted (a, b) => a - b
sortedManhwaNumbers(numbers) == SortedSeq(numbers)

RECURSIVE contiguousEnd(_, _, _)
\* Lines 237-245: extend the end while the next number is within 2 of it
contiguousEnd(manhwaNumbers, i, manhwaEnd) ==
  IF i > Len(manhwaNumbers) THEN manhwaEnd
  ELSE IF withinGap(manhwaNumbers[i], manhwaEnd)
    THEN contiguousEnd(manhwaNumbers, i + 1, manhwaNumbers[i])
    ELSE manhwaEnd

\* deriveAnimeManhwaMapping returning null
NoDerived == [anime_segment_id |-> NULL]

\* deriveAnimeManhwaMapping.  The sort by derived confidence is stable: of the
\* pairs of highest confidence the first in manhwaMappings is the best.
deriveAnimeManhwaMapping(animeMapping, manhwaMappings) ==
  LET aStart == animeMapping.to_segment_start
      aEnd == animeMapping.to_segment_end
      overlapping ==
        {k \in 1..Len(manhwaMappings) :
           overlapLength(aStart, aEnd, manhwaMappings[k].to_segment_start,
                         manhwaMappings[k].to_segment_end) > 0}
      conf(k) == derivedConf(animeMapping, manhwaMappings[k])
  IN IF overlapping = {} THEN NoDerived
     ELSE
       LET best == CHOOSE k \in overlapping :
                     \A j \in overlapping :
                       conf(k) > conf(j) \/ (conf(k) = conf(j) /\ k <= j)
           threshold == conf(best) - 500
           topMatches == {k \in overlapping : conf(k) >= threshold}
           manhwaNumbers ==
             sortedManhwaNumbers({manhwaMappings[k].from_segment_number : k \in topMatches})
       IN [anime_segment_id |-> animeMapping.from_segment_id,
           anime_segment_number |-> animeMapping.from_segment_number,
           manhwa_start |-> manhwaNumbers[1],
           manhwa_end |-> contiguousEnd(manhwaNumbers, 2, manhwaNumbers[1]),
           derived_confidence |-> conf(best),
           best_overlap_len |->
             overlapLength(aStart, aEnd, manhwaMappings[best].to_segment_start,
                           manhwaMappings[best].to_segment_end),
           best_manhwa_number |-> manhwaMappings[best].from_segment_number]

(***************************************************************************)
(* SpecDerive: one run of runDeriveAnimeManhwa, anime -> manhwa through    *)
(* the novel, from a table that already holds mappings to the novel.       *)
(***************************************************************************)
\* A row of segment_mappings as the full-range matcher writes it
MappingRow(segmentId, toEditionId, lo, hi, conf) ==
  LET seg == CHOOSE s \in segments : s.id = segmentId
  IN Vals(seg.id, seg.edition_id, seg.number, toEditionId, lo, hi, conf, "all",
          "proposed", AlgoVersion("all"))

\* The tables a run may start from: a1 -> novel [100,110] at 0.9; a2 unmapped, or
\* mapped next to a1 or far from every manhwa mapping; m1, m2 and m4 mapped (or
\* not) to ranges that overlap a1's, a2's or none; and a1, a2 with or without an
\* earlier anime -> manhwa row.
DeriveTables ==
  {{MappingRow("a1", "novel", 100, 110, 9000)} \cup a2 \cup m1 \cup m2 \cup m4 \cup old :
     a2 \in {{}, {MappingRow("a2", "novel", 106, 120, 7000)},
             {MappingRow("a2", "novel", 300, 310, 9000)}},
     m1 \in {{MappingRow("m1", "novel", 105, 108, 8000)},
             {MappingRow("m1", "novel", 100, 104, 8000)}},
     m2 \in {{}, {MappingRow("m2", "novel", 200, 205, 9500)},
             {MappingRow("m2", "novel", 109, 112, 8500)},
             {MappingRow("m2", "novel", 109, 112, 6400)}},
     m4 \in {{}, {MappingRow("m4", "novel", 110, 130, 9000)}},
     old \in SUBSET {MappingRow("a1", "manhwa", 1, 1, 5000),
                     MappingRow("a2", "manhwa", 2, 2, 5000)}}

\* History of a runDeriveAnimeManhwa step: the anime mapping handled, what was
\* derived from it, whether the query of the upsert failed for a reason of its
\* own, and the table and the counters before the step.
DeriveHist(kind, animeMapping, derived, ioFails) ==
  [kind |-> kind, animeMapping |-> animeMapping, derived |-> derived,
   tbl |-> segment_mappings, ioFails |-> ioFails,
   successCount |-> run.successCount, errorCount |-> run.errorCount]

InitDerive ==
  /\ segment_mappings \in DeriveTables
  /\ run = [pc |-> "start", animeToNovel |-> <<>>, manhwaToNovel |-> <<>>, i |-> 0,
            successCount |-> 0, skippedCount |-> 0, errorCount |-> 0]
  /\ last = [kind |-> "none", animeMapping |-> NULL, derived |-> NoDerived, tbl |-> {},
             ioFails |-> FALSE, successCount |-> 0, errorCount |-> 0]

\* Lines 283-301: fetch both mapping sets; return when either is empty
DeriveFetch ==
  /\ run.pc = "start"
  /\ LET animeToNovel == fetchToNovelMappings(segment_mappings, "anime", "novel")
         manhwaToNovel == fetchToNovelMappings(segment_mappings, "manhwa", "novel")
     IN run' = [run EXCEPT !.animeToNovel = animeToNovel, !.manhwaToNovel = manhwaToNovel,
                  !.i = 1,
                  !.pc = IF Len(animeToNovel) = 0 \/ Len(manhwaToNovel) = 0
                           THEN "returned" ELSE "loop"]
  /\ last' = DeriveHist("fetch", NULL, NoDerived, FALSE)
  /\ UNCHANGED segment_mappings

\* Lines 309-354, one iteration: derive, decide the status, upsert inside
\* try/catch (ioFails: the query raises for a reason of its own)
DeriveUnit(ioFails) ==
  /\ run.pc = "loop" /\ run.i <= Len(run.animeToNovel)
  /\ LET animeMapping == run.animeToNovel[run.i]
         derived == deriveAnimeManhwaMapping(animeMapping, run.manhwaToNovel)
         status == DeriveStatus(derived.derived_confidence)
         res == IF ioFails THEN [ok |-> FALSE, tbl |-> segment_mappings]
                ELSE upsertDerivedMapping(segment_mappings, derived.anime_segment_id,
                       "anime", derived.anime_segment_number, "manhwa",
                       derived.manhwa_start, derived.manhwa_end,
                       derived.derived_confidence, "derive", status)
     IN IF derived = NoDerived
          THEN /\ run' = [run EXCEPT !.skippedCount = @ + 1, !.i = @ + 1]
               /\ last' = DeriveHist("skipped", animeMapping, derived, FALSE)
               /\ UNCHANGED segment_mappings
          ELSE /\ segment_mappings' = res.tbl
               /\ IF res.ok
                    THEN /\ run' = [run EXCEPT !.successCount = @ + 1, !.i = @ + 1]
                         /\ last' = DeriveHist("derived", animeMapping, derived, ioFails)
                    ELSE /\ run' = [run EXCEPT !.errorCount = @ + 1, !.i = @ + 1]
                         /\ last' = DeriveHist("raised", animeMapping, derived, ioFails)

DeriveEnd ==
  /\ run.pc = "loop" /\ run.i > Len(run.animeToNovel)
  /\ run' = [run EXCEPT !.pc = "done"]
  /\ last' = DeriveHist("end", NULL, NoDerived, FALSE)
  /\ UNCHANGED segment_mappings

NextDerive ==
  \/ DeriveFetch
  \/ \E ioFails \in BOOLEAN : DeriveUnit(ioFails)
  \/ DeriveEnd

SpecDerive == InitDerive /\ [][NextDerive]_vars

\* C15: the confidence persisted for an anime mapping a is the highest, over the
\* manhwa mappings b whose novel range overlaps a's, of conf(a) x conf(b) x
\* overlap / min(len(a), len(b)) clamped to [0,1]; the persisted range starts and
\* ends at the number of such a b; and with A = [100,110] at 0.9, B1 = [105,108] at
\* 0.8 and B2 = [200,205] at 0.95 the row is 0.72 over B1's number alone.
C15_DerivedConfidenceFromBestOverlap ==
  last.kind = "derived" =>
    LET a == last.animeMapping
        lenA == a.to_segment_end - a.to_segment_start + 1
        B == {r \in last.tbl : /\ r.to_edition_id = "novel"
                               /\ r.from_edition_id = "manhwa"}
        ov(b) == Max2(0, Min2(a.to_segment_end, b.to_segment_end)
                         - Max2(a.to_segment_start, b.to_segment_start) + 1)
        lenB(b) == b.to_segment_end - b.to_segment_start + 1
        pairConf(b) ==
          Max2(0, Min2(ONE, (a.confidence * b.confidence * ov(b))
                             \div (ONE * Min2(lenA, lenB(b)))))
        over == {b \in B : ov(b) > 0}
        row == TheRow(segment_mappings, a.from_segment_id, "manhwa")
    IN /\ over # {}
       /\ row.confidence = SetMax({pairConf(b) : b \in over})
       /\ row.to_segment_start \in {b.segment_number : b \in over}
       /\ row.to_segment_end \in {b.segment_number : b \in over}
       /\ (/\ a.from_segment_id = "a1"
           /\ MappingRow("m1", "novel", 105, 108, 8000) \in B
           /\ B \subseteq {MappingRow("m1", "novel", 105, 108, 8000),
                           MappingRow("m2", "novel", 200, 205, 9500)}) =>
            /\ row.confidence = 7200
            /\ row.to_segment_start = 1 /\ row.to_segment_end = 1

\* C15 witness: A = [100,110] at 0.9 derived against B1 = [105,108] at 0.8 and
\* B2 = [200,205] at 0.95, and the row written.
C15_Witness ==
  /\ last.kind = "derived"
  /\ last.animeMapping.from_segment_id = "a1"
  /\ {r \in last.tbl : r.to_edition_id = "novel" /\ r.from_edition_id = "manhwa"} =
       {MappingRow("m1", "novel", 105, 108, 8000), MappingRow("m2", "novel", 200, 205, 9500)}
  /\ TheRow(segment_mappings, "a1", "manhwa").confidence = 7200

\* C26: the range derived for an anime mapping a starts at the lowest manhwa
\* number among the kept pairs (the overlapping pairs whose derived confidence is
\* within 0.05 of the best) and ends at the last kept number reached from it by
\* steps of at most 2; kept numbers past the first larger gap are outside the
\* range.  The row written carries that range.
C26_RangeFromLowestKeptUntilGap ==
  last.kind \in {"derived", "raised"} =>
    LET a == last.animeMapping
        lenA == a.to_segment_end - a.to_segment_start + 1
        B == {r \in last.tbl : /\ r.to_edition_id = "novel"
                               /\ r.from_edition_id = "manhwa"}
        ov(b) == Max2(0, Min2(a.to_segment_end, b.to_segment_end)
                         - Max2(a.to_segment_start, b.to_segment_start) + 1)
        lenB(b) == b.to_segment_end - b.to_segment_start + 1
        pairConf(b) ==
          Max2(0, Min2(ONE, (a.confidence * b.confidence * ov(b))
                             \div (ONE * Min2(lenA, lenB(b)))))
        over == {b \in B : ov(b) > 0}
        top == SetMax({pairConf(b) : b \in over})
        kept == {b.segment_number : b \in {c \in over : pairConf(c) >= top - 500}}
        reached == {n \in kept :
                      \A m \in kept : m < n => \E m2 \in kept : m < m2 /\ m2 <= m + 2}
        row == TheRow(segment_mappings, a.from_segment_id, "manhwa")
    IN /\ last.derived.manhwa_start = SetMin(kept)
       /\ last.derived.manhwa_end = SetMax(reached)
       /\ \A n \in kept \ reached : n > last.derived.manhwa_end
       /\ last.kind = "derived" =>
            /\ row.to_segment_start = last.derived.manhwa_start
            /\ row.to_segment_end = last.derived.manhwa_end

\* C26 witness: manhwa numbers 1 and 4 are kept for a2 (gap 3), and the row is
\* written with the range [1, 1].
C26_Witness ==
  /\ last.kind = "derived"
  /\ last.animeMapping.from_segment_id = "a2"
  /\ last.derived.manhwa_start = 1 /\ last.derived.manhwa_end = 1
  /\ last.derived.best_manhwa_number = 4
  /\ TheRow(segment_mappings, "a2", "manhwa").to_segment_end = 1

\* C36 (as stated): the range derived for an anime mapping always contains the
\* manhwa number of the best pair, the pair whose derived confidence and overlap
\* are reported as the mapping's confidence and evidence.
C36_DerivedRangeContainsBest ==
  last.kind \in {"derived", "raised"} =>
    /\ last.derived.manhwa_start <= last.derived.best_manhwa_number
    /\ last.derived.best_manhwa_number <= last.derived.manhwa_end

\* C36 (amended): the derived range is not empty and never starts above the
\* manhwa number of the best pair; it contains that number exactly when no two
\* consecutive kept numbers below it are more than 2 apart, and otherwise ends
\* below it.
C36_ContainsBestUnlessGap ==
  last.kind \in {"derived", "raised"} =>
    LET a == last.animeMapping
        lenA == a.to_segment_end - a.to_segment_start + 1
        B == {r \in last.tbl : /\ r.to_edition_id = "novel"
                               /\ r.from_edition_id = "manhwa"}
        ov(b) == Max2(0, Min2(a.to_segment_end, b.to_segment_end)
                         - Max2(a.to_segment_start, b.to_segment_start) + 1)
        lenB(b) == b.to_segment_end - b.to_segment_start + 1
        pairConf(b) ==
          Max2(0, Min2(ONE, (a.confidence * b.confidence * ov(b))
                             \div (ONE * Min2(lenA, lenB(b)))))
        over == {b \in B : ov(b) > 0}
        top == SetMax({pairConf(b) : b \in over})
        kept == {b.segment_number : b \in {c \in over : pairConf(c) >= top - 500}}
        best == last.derived.best_manhwa_number
        gapBelowBest ==
          \E m \in kept : /\ m < best
                          /\ \A n \in kept : n > m => n > m + 2
    IN /\ best \in kept
       /\ last.derived.manhwa_start <= last.derived.manhwa_end
       /\ last.derived.manhwa_start <= best
       /\ (best <= last.derived.manhwa_end) <=> ~gapBelowBest

\* C36 witness: manhwa numbers 1, 2 and 4 are kept for a2, the best pair is the
\* one of number 4, and the row is written with the range [1, 4].
C36_Witness ==
  /\ last.kind = "derived"
  /\ last.animeMapping.from_segment_id = "a2"
  /\ last.derived.manhwa_start = 1 /\ last.derived.manhwa_end = 4
  /\ last.derived.best_manhwa_number = 4
  /\ TheRow(segment_mappings, "a2", "manhwa").to_segment_end = 4

\* C38: in runDeriveAnimeManhwa, an anime mapping that overlaps a manhwa mapping
\* and has no segment_mappings row yet for (anime segment, manhwa edition) gets a
\* row with the derived range and confidence, and is counted in successCount,
\* not in errorCount (the query not failing for a reason of its own).
C38_InsertCountsAsSuccess ==
  (/\ last.kind \in {"derived", "raised"}
   /\ ~last.ioFails
   /\ existingCheck(last.tbl, last.animeMapping.from_segment_id, "manhwa") = {}) =>
    /\ \E r \in segment_mappings :
         /\ r.from_segment_id = last.animeMapping.from_segment_id
         /\ r.to_edition_id = "manhwa"
         /\ r.to_segment_start = last.derived.manhwa_start
         /\ r.to_segment_end = last.derived.manhwa_end
         /\ r.confidence = last.derived.derived_confidence
    /\ run.successCount = last.successCount + 1
    /\ run.errorCount = last.errorCount

(***************************************************************************)
(* SpecConc: two upserts for the same (source segment, target edition)     *)
(* pair, run by two processes, each a SELECT followed by an UPDATE or an   *)
(* INSERT (upsertMapping of matchingAll.ts and matchingIncremental.ts,     *)
(* upsertDerivedMapping of deriveAnimeManhwa.ts).  Each statement is one   *)
(* step; the steps of the two processes interleave in any order.           *)
(***************************************************************************)
ConcProcs == {1, 2}
ConcMatchers == {"all", "inc", "derive"}

\* First statement: whether the SELECT finds a row (existingCheck.length > 0)
upsertSelect(tbl, vals) ==
  Cardinality(existingCheck(tbl, vals.from_segment_id, vals.to_edition_id)) > 0

\* Second statement, chosen by what the SELECT found: the UPDATE, or the INSERT
\* (which for upsertDerivedMapping is rejected, and for the others is rejected
\* by the unique key when a row has appeared)
upsertWrite(m, tbl, vals, found) ==
  IF found
    THEN [ok |-> TRUE, insert |-> FALSE,
          tbl |-> UpdateRows(tbl, vals, AllColumns \ {"from_segment_id", "to_edition_id"})]
    ELSE IF m = "derive"
      THEN [ok |-> FALSE, insert |-> TRUE, tbl |-> tbl]
      ELSE [ok |-> InsertRow(tbl, vals, AllColumns).ok, insert |-> TRUE,
            tbl |-> InsertRow(tbl, vals, AllColumns).tbl]

\* The arguments of the upsert call of a process
ConcVals(m, lo, hi, conf) ==
  Vals("a1", "anime", 1, "manhwa", lo, hi, conf, m, StatusOf(m, lo, hi, conf),
       AlgoVersion(m))

InitConc ==
  /\ segment_mappings \in {{}, {MappingRow("a1", "manhwa", 1, 1, 5000)}}
  /\ \E calls \in [ConcProcs -> {[m |-> m, lo |-> rg[1], hi |-> rg[2], conf |-> conf] :
                                  m \in ConcMatchers, rg \in UpsertRanges,
                                  conf \in UpsertConfs}] :
       run = [pc |-> [p \in ConcProcs |-> "select"],
              found |-> [p \in ConcProcs |-> FALSE],
              call |-> calls]
  /\ last = [inserts |-> 0, raised |-> {}, initial |-> segment_mappings]

ConcSelect(p) ==
  /\ run.pc[p] = "select"
  /\ LET c == run.call[p]
     IN run' = [run EXCEPT !.pc[p] = "write",
                  !.found[p] = upsertSelect(segment_mappings,
                                            ConcVals(c.m, c.lo, c.hi, c.conf))]
  /\ UNCHANGED <<segment_mappings, last>>

ConcWrite(p) ==
  /\ run.pc[p] = "write"
  /\ LET c == run.call[p]
         res == upsertWrite(c.m, segment_mappings, ConcVals(c.m, c.lo, c.hi, c.conf),
                            run.found[p])
     IN /\ segment_mappings' = res.tbl
        /\ run' = [run EXCEPT !.pc[p] = IF res.ok THEN "done" ELSE "raised"]
        /\ last' = [last EXCEPT
                      !.inserts = IF res.insert THEN @ + 1 ELSE @,
                      !.raised = IF res.ok THEN @ ELSE @ \cup {p}]

NextConc ==
  \/ \E p \in ConcProcs : ConcSelect(p)
  \/ \E p \in ConcProcs : ConcWrite(p)

SpecConc == InitConc /\ [][NextConc]_vars

\* C16: for two upserts of the same pair, in every interleaving of their
\* statements at most one INSERT is issued, and when both have ended the pair has
\* exactly one row.
C16_AtMostOneInsert ==
  /\ last.inserts <= 1
  /\ (\A p \in ConcProcs : run.pc[p] \in {"done", "raised"}) =>
       Cardinality(existingCheck(segment_mappings, "a1", "manhwa")) = 1

(***************************************************************************)
(* SpecLLM: one call of callLLMWithJsonValidation (llm.ts).  A completion  *)
(* request either raises (the transport fails), or answers with no         *)
(* content, or answers with a content that is not JSON, that is JSON but   *)
(* does not match the schema, or that is valid.                            *)
(***************************************************************************)
MaxRetries == 1

LLMContents == {"r1", "r2", "r3"}
\* What a completion request may come to
LLMOutcomes ==
  {[kind |-> "request-error", content |-> ""], [kind |-> "empty", content |-> ""]} \cup
  {[kind |-> k, content |-> c] : k \in {"bad-json", "bad-schema", "valid"}, c \in LLMContents}

\* Lines 35-38: the messages of the first request
InitialMessages ==
  <<[role |-> "system", content |-> "systemPrompt"],
    [role |-> "user", content |-> "userPrompt"]>>

\* Lines 77-86: the messages added before a retry
FixMessages(lastResponse, lastError) ==
  IF lastResponse # ""
    THEN <<[role |-> "assistant", content |-> lastResponse],
           [role |-> "user", content |-> <<"fix", lastError>>]>>
    ELSE <<>>

\* Line 43: the loop condition, with one attempt more
attemptAllowed_OneMore(attempt, retries) == attempt <= retries + 1
\* Line 43: the loop condition
attemptAllowed(attempt, retries) == attempt <= retries

InitLLM ==
  /\ segment_mappings = {}
  /\ \E retries \in 0..MaxRetries :
       run = [pc |-> "loop", retries |-> retries, attempt |-> 0,
              messages |-> InitialMessages, lastResponse |-> "", lastError |-> NULL,
              returned |-> NULL]
  /\ last = [sent |-> <<>>, outcomes |-> <<>>]

\* Lines 43-89, one iteration: the request, the parse and the validation, and in
\* the catch the fix prompt when another attempt follows
LLMAttempt(outcome) ==
  /\ run.pc = "loop" /\ attemptAllowed(run.attempt, run.retries)
  /\ last' = [sent |-> Append(last.sent, run.messages),
              outcomes |-> Append(last.outcomes, outcome)]
  /\ UNCHANGED segment_mappings
  /\ IF outcome.kind = "valid"
       THEN run' = [run EXCEPT !.pc = "returned", !.lastResponse = outcome.content,
                               !.returned = outcome.content]
       ELSE LET lastResponse == IF outcome.content # "" THEN outcome.content
                                ELSE run.lastResponse
                lastError == <<outcome.kind, outcome.content>>
            IN run' = [run EXCEPT
                         !.lastResponse = lastResponse,
                         !.lastError = lastError,
                         !.messages = IF run.attempt < run.retries
                                        THEN @ \o FixMessages(lastResponse, lastError)
                                        ELSE @,
                         !.attempt = @ + 1]

\* Line 92: after the loop, throw the last error
LLMThrow ==
  /\ run.pc = "loop" /\ ~attemptAllowed(run.attempt, run.retries)
  /\ run' = [run EXCEPT !.pc = "thrown"]
  /\ UNCHANGED <<segment_mappings, last>>

NextLLM ==
  \/ \E outcome \in LLMOutcomes : LLMAttempt(outcome)
  \/ LLMThrow

SpecLLM == InitLLM /\ [][NextLLM]_vars

\* The error an outcome raises
ErrorOf(outcome) == <<outcome.kind, outcome.content>>

\* C17 (as stated): with retries = 1 at most two requests are sent; the second is
\* sent only after the first attempt failed, and it carries the first request's
\* messages followed by the first response as an assistant message and a user
\* message embedding the error; when the second attempt fails too the call throws
\* that attempt's error.
C17_SecondRequestIsCorrective ==
  run.retries = 1 =>
    /\ Len(last.sent) <= 2
    /\ Len(last.sent) = 2 =>
         /\ last.outcomes[1].kind # "valid"
         /\ last.sent[2] =
              last.sent[1] \o
                <<[role |-> "assistant", content |-> last.outcomes[1].content],
                  [role |-> "user", content |-> <<"fix", ErrorOf(last.outcomes[1])>>]>>
    /\ run.pc = "thrown" =>
         /\ Len(last.sent) = 2
         /\ last.outcomes[2].kind # "valid"
         /\ run.lastError = ErrorOf(last.outcomes[2])

\* C17 (amended): as stated when the first attempt answered with a content that
\* failed to parse or validate; when the first attempt failed without a content
\* (the request raised, or the answer was empty) the second request repeats the
\* messages of the first.
C17_AtMostTwoRequests ==
  run.retries = 1 =>
    /\ Len(last.sent) <= 2
    /\ Len(last.sent) = 2 =>
         /\ last.outcomes[1].kind # "valid"
         /\ last.sent[2] =
              IF last.outcomes[1].content # ""
                THEN last.sent[1] \o
                       <<[role |-> "assistant", content |-> last.outcomes[1].content],
                         [role |-> "user",
                          content |-> <<"fix", ErrorOf(last.outcomes[1])>>]>>
                ELSE last.sent[1]
    /\ run.pc = "thrown" =>
         /\ Len(last.sent) = 2
         /\ last.outcomes[2].kind # "valid"
         /\ run.lastError = ErrorOf(last.outcomes[2])

\* C17 witness: a first answer that did not match the schema, a corrective second
\* request, a second answer that is not JSON, and the call has thrown.
C17_Witness ==
  /\ run.retries = 1
  /\ run.pc = "thrown"
  /\ Len(last.sent) = 2
  /\ last.outcomes[1].kind = "bad-schema"
  /\ last.outcomes[2].kind = "bad-json"
  /\ Len(last.sent[2]) = 4

(***************************************************************************)
(* SpecScore: one call of applyTimeContextAdjustment (score.ts) on a score *)
(* and two time contexts as the stored entities carry them.                *)
(***************************************************************************)
ScoreInputs == {0, 2500, 5000, 7500, ONE}

InitScore ==
  /\ segment_mappings = {}
  /\ \E score \in ScoreInputs, a \in TimeContexts, b \in TimeContexts :
       run = [pc |-> "call", score |-> score, fromTimeContext |-> a, toTimeContext |-> b]
  /\ last = [kind |-> "none"]

\* The call, and the call with the two contexts exchanged
ScoreApply ==
  /\ run.pc = "call"
  /\ run' = [run EXCEPT !.pc = "returned"]
  /\ last' = [kind |-> "adjusted",
              result |-> applyTimeContextAdjustment(run.score, run.fromTimeContext,
                                                    run.toTimeContext),
              swapped |-> applyTimeContextAdjustment(run.score, run.toTimeContext,
                                                     run.fromTimeContext)]
  /\ UNCHANGED segment_mappings

NextScore == ScoreApply

SpecScore == InitScore /\ [][NextScore]_vars

\* C31: applyTimeContextAdjustment(score, a, b) is score + 0.02 when a and b are
\* the same known context, score - 0.03 when one is 'present' and the other is
\* 'flashback' or 'future', and score for every other pair; and it is the same
\* with a and b exchanged.
C31_TimeContextAdjustment ==
  last.kind = "adjusted" =>
    LET a == normalizeTimeContext(run.fromTimeContext)
        b == normalizeTimeContext(run.toTimeContext)
        known == {"present", "flashback", "future"}
        expected ==
          IF a = b /\ a \in known THEN run.score + 200
          ELSE IF \/ a = "present" /\ b \in {"flashback", "future"}
                  \/ b = "present" /\ a \in {"flashback", "future"}
            THEN run.score - 300
            ELSE run.score
    IN /\ last.result = expected
       /\ last.result = last.swapped


(***************************************************************************)
(* SpecLegacy: one run of runDerive, the legacy derivation (derive.ts),    *)
(* anime -> manhwa through the novel, from a table that already holds      *)
(* mappings to the novel.                                                  *)
(***************************************************************************)
\* fetchMappingsToPivot: the mappings of the source edition to the pivot, in
\* order of segment number, limit rows at most
fetchMappingsToPivot(tbl, fromEditionId, pivotEditionId, limit) ==
  LET rows == fetchToNovelMappings(tbl, fromEditionId, pivotEditionId)
  IN SubSeq(rows, 1, Min2(limit, Len(rows)))

\* fetchManhwaMappingsToPivot: the same rows under the names of ManhwaMapping
fetchManhwaMappingsToPivot(tbl, manhwaEditionId, pivotEditionId) ==
  LET rows == fetchToNovelMappings(tbl, manhwaEditionId, pivotEditionId)
  IN [k \in 1..Len(rows) |->
        [manhwa_segment_id |-> rows[k].from_segment_id,
         manhwa_segment_number |-> rows[k].from_segment_number,
         pivot_start |-> rows[k].to_segment_start,
         pivot_end |-> rows[k].to_segment_end,
         confidence |-> rows[k].confidence]]

\* Lines 232-233 with Math.min for both ends
minMaxRange_MinOnly(numbers) ==
  [toSegmentStart |-> SetMin(numbers), toSegmentEnd |-> SetMin(numbers)]
\* Lines 232-233: toSegmentStart = Math.min(...numbers), toSegmentEnd = Math.max(...numbers)
minMaxRange(numbers) ==
  [toSegmentStart |-> SetMin(numbers), toSegmentEnd |-> SetMax(numbers)]

\* deriveMapping returning false
NotDerived == [derived |-> FALSE]

\* deriveMapping up to its upsert: the range and the confidence it persists.
\* The sort by derived confidence is stable: of the pairs of highest confidence
\* the first in manhwaMappings is the best.
deriveMapping(animeMapping, manhwaMappings) ==
  LET aStart == animeMapping.to_segment_start
      aEnd == animeMapping.to_segment_end
      confA == animeMapping.confidence
      lenA == aEnd - aStart + 1
      overlapLen(k) ==
        Max2(0, Min2(aEnd, manhwaMappings[k].pivot_end)
                  - Max2(aStart, manhwaMappings[k].pivot_start) + 1)
      lenM(k) == manhwaMappings[k].pivot_end - manhwaMappings[k].pivot_start + 1
      conf(k) ==
        Min2(ONE, Max2(0, (confA * manhwaMappings[k].confidence * overlapLen(k))
                            \div (ONE * Min2(lenA, lenM(k)))))
      overlappingManhwa == {k \in 1..Len(manhwaMappings) : overlapLen(k) > 0}
  IN IF overlappingManhwa = {} THEN NotDerived
     ELSE
       LET best == CHOOSE k \in overlappingManhwa :
                     \A j \in overlappingManhwa :
                       conf(k) > conf(j) \/ (conf(k) = conf(j) /\ k <= j)
           threshold == conf(best) - 500
           topCandidates == {k \in overlappingManhwa : conf(k) >= threshold}
           range == minMaxRange({manhwaMappings[k].manhwa_segment_number :
                                   k \in topCandidates})
       IN [derived |-> TRUE, toSegmentStart |-> range.toSegmentStart,
           toSegmentEnd |-> range.toSegmentEnd, confidence |-> conf(best)]

\* History of a runDerive step: the anime mapping handled, what deriveMapping
\* computed for it, and the table before the step.
LegacyHist(kind, animeMapping, result) ==
  [kind |-> kind, animeMapping |-> animeMapping, result |-> result,
   tbl |-> segment_mappings]

InitLegacy ==
  /\ segment_mappings \in DeriveTables
  /\ \E limit \in {1, 2} :
       run = [pc |-> "start", limit |-> limit, animeToPivot |-> <<>>,
              manhwaToPivot |-> <<>>, i |-> 0, processed |-> 0, errors |-> 0,
              derived |-> 0]
  /\ last = [kind |-> "none", animeMapping |-> NULL, result |-> NotDerived, tbl |-> {}]

\* Lines 100-109: fetch both mapping sets; return when either is empty
LegacyFetch ==
  /\ run.pc = "start"
  /\ LET animeToPivot == fetchMappingsToPivot(segment_mappings, "anime", "novel", run.limit)
         manhwaToPivot == fetchManhwaMappingsToPivot(segment_mappings, "manhwa", "novel")
     IN run' = [run EXCEPT !.animeToPivot = animeToPivot, !.manhwaToPivot = manhwaToPivot,
                  !.i = 1,
                  !.pc = IF Len(animeToPivot) = 0 \/ Len(manhwaToPivot) = 0
                           THEN "returned" ELSE "loop"]
  /\ last' = LegacyHist("fetch", NULL, NotDerived)
  /\ UNCHANGED segment_mappings

\* Lines 116-135, one iteration: deriveMapping inside try/catch (ioFails: the
\* query of its upsert raises)
LegacyUnit(ioFails) ==
  /\ run.pc = "loop" /\ run.i <= Len(run.animeToPivot)
  /\ LET animeMapping == run.animeToPivot[run.i]
         result == deriveMapping(animeMapping, run.manhwaToPivot)
         res == IF ioFails THEN [ok |-> FALSE, tbl |-> segment_mappings]
                ELSE upsertDerivedMapping_legacy(segment_mappings,
                       animeMapping.from_segment_id, "manhwa", result.toSegmentStart,
                       result.toSegmentEnd, result.confidence, "derive-legacy")
     IN IF ~result.derived
          THEN /\ run' = [run EXCEPT !.processed = @ + 1, !.i = @ + 1]
               /\ last' = LegacyHist("not-derived", animeMapping, result)
               /\ UNCHANGED segment_mappings
          ELSE /\ segment_mappings' = res.tbl
               /\ IF res.ok
                    THEN /\ run' = [run EXCEPT !.derived = @ + 1, !.processed = @ + 1,
                                               !.i = @ + 1]
                         /\ last' = LegacyHist("derived", animeMapping, result)
                    ELSE /\ run' = [run EXCEPT !.errors = @ + 1, !.i = @ + 1]
                         /\ last' = LegacyHist("raised", animeMapping, result)

LegacyEnd ==
  /\ run.pc = "loop" /\ run.i > Len(run.animeToPivot)
  /\ run' = [run EXCEPT !.pc = "done"]
  /\ last' = LegacyHist("end", NULL, NotDerived)
  /\ UNCHANGED segment_mappings

NextLegacy ==
  \/ LegacyFetch
  \/ \E ioFails \in BOOLEAN : LegacyUnit(ioFails)
  \/ LegacyEnd

SpecLegacy == InitLegacy /\ [][NextLegacy]_vars

\* C40: for the same anime mapping and the same manhwa mappings, deriveMapping
\* derives a mapping exactly when deriveAnimeManhwaMapping does, with the same
\* confidence and the same start, and with the same end whenever the kept manhwa
\* numbers have no gap larger than 2 (the end of deriveAnimeManhwaMapping is then
\* the highest kept number).
C40_LegacyAgreesWithDeriveAnimeManhwa ==
  last.kind \in {"not-derived", "derived", "raised"} =>
    LET new == deriveAnimeManhwaMapping(last.animeMapping,
                 fetchToNovelMappings(last.tbl, "manhwa", "novel"))
        a == last.animeMapping
        B == {r \in last.tbl : /\ r.to_edition_id = "novel"
                               /\ r.from_edition_id = "manhwa"}
        ov(b) == Max2(0, Min2(a.to_segment_end, b.to_segment_end)
                         - Max2(a.to_segment_start, b.to_segment_start) + 1)
        pairConf(b) ==
          Max2(0, Min2(ONE, (a.confidence * b.confidence * ov(b))
                 \div (ONE * Min2(a.to_segment_end - a.to_segment_start + 1,
                                  b.to_segment_end - b.to_segment_start + 1))))
        over == {b \in B : ov(b) > 0}
        top == SetMax({pairConf(b) : b \in over})
        kept == {b.segment_number : b \in {c \in over : pairConf(c) >= top - 500}}
        noGap == \A m \in kept : m = SetMax(kept) \/ \E n \in kept : m < n /\ n <= m + 2
        row == TheRow(segment_mappings, a.from_segment_id, "manhwa")
    IN /\ last.result.derived <=> (new # NoDerived)
       /\ last.result.derived =>
            /\ last.result.confidence = new.derived_confidence
            /\ last.result.toSegmentStart = new.manhwa_start
            /\ noGap => last.result.toSegmentEnd = new.manhwa_end
            /\ last.kind = "derived" =>
                 /\ row.confidence = new.derived_confidence
                 /\ row.to_segment_start = new.manhwa_start
                 /\ noGap => row.to_segment_end = new.manhwa_end

\* C40 witness: numbers 1, 2 and 4 are kept for a2, and the legacy derivation
\* writes the range [1, 4], the one deriveAnimeManhwaMapping gives.
C40_Witness ==
  /\ last.kind = "derived"
  /\ last.animeMapping.from_segment_id = "a2"
  /\ last.result.toSegmentStart = 1 /\ last.result.toSegmentEnd = 4
  /\ deriveAnimeManhwaMapping(last.animeMapping,
       fetchToNovelMappings(last.tbl, "manhwa", "novel")).manhwa_end = 4
  /\ TheRow(segment_mappings, "a2", "manhwa").to_segment_end = 4

====
